---------------------------- MODULE Spec2Model ----------------------------
(***************************************************************************)
(* Model of bitovi-training/auth-middleware: JwtParserService.parseToken,  *)
(* AuthGuard, RequireRolesGuard and RequireAllRolesGuard, as they run on   *)
(* the requests of a NestJS application.                                   *)
(*                                                                         *)
(* A JavaScript string is a sequence of code points (Str("ab") is          *)
(* <<97, 98>>), a Buffer is a sequence of bytes, and a JavaScript value is *)
(* a record tagged by its type in field t.                                 *)
(***************************************************************************)
EXTENDS Integers, Sequences, FiniteSets, TLC

\* const name = value; the rest of the block: the value is computed once and
\* the rest reads it under that name.
Let(value, rest(_)) == rest(value)

(***************************************************************************)
(* Characters and strings                                                  *)
(***************************************************************************)

\* The printable ASCII characters a literal can hold: code points 32..95 and
\* 97..126 in order (a TLA+ string cannot hold the grave accent, 96).
AsciiLow ==
  " !\"#$%&'()*+,-./0123456789:;<=>?@ABCDEFGHIJKLMNOPQRSTUVWXYZ[\\]^_"
AsciiHigh == "abcdefghijklmnopqrstuvwxyz{|}~"

CodeOf ==
  [c \in {SubSeq(AsciiLow, i, i) : i \in 1..Len(AsciiLow)} |->
     31 + (CHOOSE i \in 1..Len(AsciiLow) : SubSeq(AsciiLow, i, i) = c)]
  @@
  [c \in {SubSeq(AsciiHigh, i, i) : i \in 1..Len(AsciiHigh)} |->
     96 + (CHOOSE i \in 1..Len(AsciiHigh) : SubSeq(AsciiHigh, i, i) = c)]

\* The JavaScript string a literal of the source denotes.
Str(s) == [i \in 1..Len(s) |-> CodeOf[SubSeq(s, i, i)]]

\* The code point of a one-character literal.
Ch(c) == CodeOf[c]

Drop(s, n) == SubSeq(s, n + 1, Len(s))

\* String.prototype.startsWith
StartsWith(s, prefix) ==
  /\ Len(s) >= Len(prefix)
  /\ SubSeq(s, 1, Len(prefix)) = prefix

\* String.prototype.substring(start) and substring(0, end)
SubstringFrom(s, start) == Drop(s, start)
SubstringTo(s, end) == SubSeq(s, 1, IF end < Len(s) THEN end ELSE Len(s))

\* ECMAScript WhiteSpace and LineTerminator code points, stripped by trim().
JsWhiteSpace ==
  {9, 10, 11, 12, 13, 32, 160, 5760, 8232, 8233, 8239, 8287, 12288, 65279}
    \cup (8192..8202)

RECURSIVE TrimStart(_)
TrimStart(s) ==
  IF s # <<>> /\ Head(s) \in JsWhiteSpace THEN TrimStart(Tail(s)) ELSE s

RECURSIVE TrimEnd(_)
TrimEnd(s) ==
  IF s # <<>> /\ s[Len(s)] \in JsWhiteSpace
  THEN TrimEnd(SubSeq(s, 1, Len(s) - 1)) ELSE s

\* trimStart in the place of trim. C11 does not hold of it.
TrimStartOnly(s) == TrimStart(s)

\* String.prototype.trim
Trim(s) == TrimEnd(TrimStart(s))

\* split(sep, 3): the first 3 pieces only. C3 does not hold of it.
SplitLimit3(s, sep) ==
  LET at == {i \in 1..Len(s) : s[i] = sep}
      place(k) == IF k = 0 THEN 0
                  ELSE IF k > Cardinality(at) THEN Len(s) + 1
                  ELSE CHOOSE p \in at : Cardinality({q \in at : q < p}) = k - 1
      pieces == IF Cardinality(at) + 1 > 3 THEN 3 ELSE Cardinality(at) + 1
  IN [k \in 1..pieces |-> SubSeq(s, place(k - 1) + 1, place(k) - 1)]

\* A split that leaves the empty pieces out.
SplitNoEmptyPieces(s, sep) ==
  LET at == {i \in 1..Len(s) : s[i] = sep}
      place(k) == IF k = 0 THEN 0
                  ELSE IF k > Cardinality(at) THEN Len(s) + 1
                  ELSE CHOOSE p \in at : Cardinality({q \in at : q < p}) = k - 1
  IN SelectSeq([k \in 1..(Cardinality(at) + 1) |->
                  SubSeq(s, place(k - 1) + 1, place(k) - 1)],
               LAMBDA piece : piece # <<>>)

\* String.prototype.split(sep) for a one-character separator: the pieces
\* between the separators, empty pieces kept.
Split(s, sep) ==
  LET at == {i \in 1..Len(s) : s[i] = sep}
      \* the k-th separator's place; 0 and Len(s) + 1 bound the string
      place(k) == IF k = 0 THEN 0
                  ELSE IF k > Cardinality(at) THEN Len(s) + 1
                  ELSE CHOOSE p \in at : Cardinality({q \in at : q < p}) = k - 1
  IN [k \in 1..(Cardinality(at) + 1) |->
        SubSeq(s, place(k - 1) + 1, place(k) - 1)]

\* String.prototype.replace(/x/g, y) for one-character x and y.
ReplaceAll(s, x, y) == [i \in 1..Len(s) |-> IF s[i] = x THEN y ELSE s[i]]

\* String.prototype.padEnd(targetLength, c)
PadEnd(s, targetLength, c) ==
  IF targetLength <= Len(s) THEN s
  ELSE s \o [i \in 1..(targetLength - Len(s)) |-> c]

RECURSIVE JoinFrom(_, _, _)
JoinFrom(parts, sep, i) ==
  IF i > Len(parts) THEN <<>>
  ELSE (IF i > 1 THEN sep ELSE <<>>) \o parts[i] \o JoinFrom(parts, sep, i + 1)

\* Array.prototype.join(sep)
Join(parts, sep) == JoinFrom(parts, sep, 1)

(***************************************************************************)
(* Buffer: base64 and UTF-8                                                *)
(***************************************************************************)

Base64Chars ==
  Str("ABCDEFGHIJKLMNOPQRSTUVWXYZabcdefghijklmnopqrstuvwxyz0123456789+/")
Base64UrlChars ==
  Str("ABCDEFGHIJKLMNOPQRSTUVWXYZabcdefghijklmnopqrstuvwxyz0123456789-_")

\* Node's decoding table: the sextet of a character of either alphabet, 64
\* for every other character.
Unbase64 ==
  [c \in 0..127 |->
     IF \E i \in 1..64 : Base64Chars[i] = c
     THEN (CHOOSE i \in 1..64 : Base64Chars[i] = c) - 1
     ELSE IF \E i \in 1..64 : Base64UrlChars[i] = c
     THEN (CHOOSE i \in 1..64 : Base64UrlChars[i] = c) - 1
     ELSE 64]

Sextet(c) == IF c \in 0..127 THEN Unbase64[c] ELSE 64

\* The sextets Node's decoder reads: it skips every character that is not
\* of the alphabet and stops at the first '='.
Sextets(s) ==
  LET pads == {i \in 1..Len(s) : s[i] = Ch("=")}
      end == IF pads = {} THEN Len(s)
             ELSE (CHOOSE p \in pads : \A q \in pads : p <= q) - 1
      kept == SelectSeq(SubSeq(s, 1, end), LAMBDA c : Sextet(c) < 64)
  IN [i \in 1..Len(kept) |-> Sextet(kept[i])]

Pow2(n) == IF n = 0 THEN 1 ELSE IF n = 2 THEN 4 ELSE IF n = 4 THEN 16
           ELSE IF n = 6 THEN 64 ELSE IF n = 8 THEN 256 ELSE 1024

\* The bytes of a run of sextets: byte j (from 0) is bits 8j..8j+7 of the
\* run; a last sextet that completes no byte is dropped.
SextetsToBytes(q) ==
  [k \in 1..((6 * Len(q)) \div 8) |->
     LET a == (8 * (k - 1)) \div 6
         off == (8 * (k - 1)) % 6
     IN ((q[a + 1] * 64 + q[a + 2]) \div Pow2(4 - off)) % 256]

\* Buffer.from(s, 'base64'): never throws.
BufferFromBase64(s) == SextetsToBytes(Sextets(s))

\* One code point from bytes[i], a byte above 127: [cp, len], the code
\* point and the bytes it takes. An ill-formed sequence gives U+FFFD and
\* takes its lead byte and the continuation bytes that were in range (the
\* WHATWG decoder).
Utf8Sequence(bytes, i) ==
  LET b == bytes[i]
      needed == IF b \in 194..223 THEN 1 ELSE IF b \in 224..239 THEN 2
                ELSE IF b \in 240..244 THEN 3 ELSE 0
      lo == IF b = 224 THEN 160 ELSE IF b = 240 THEN 144 ELSE 128
      hi == IF b = 237 THEN 159 ELSE IF b = 244 THEN 143 ELSE 191
      inRange(k) == /\ i + k <= Len(bytes)
                    /\ bytes[i + k] \in (IF k = 1 THEN lo ELSE 128)
                                        ..(IF k = 1 THEN hi ELSE 191)
      good == IF needed >= 1 /\ inRange(1)
              THEN IF needed >= 2 /\ inRange(2)
                   THEN IF needed >= 3 /\ inRange(3) THEN 3 ELSE 2
                   ELSE 1
              ELSE 0
      c(k) == bytes[i + k] - 128
  IN IF needed = 0 \/ good < needed THEN [cp |-> 65533, len |-> 1 + good]
     ELSE IF needed = 1 THEN [cp |-> (b - 192) * 64 + c(1), len |-> 2]
     ELSE IF needed = 2
     THEN [cp |-> (b - 224) * 4096 + c(1) * 64 + c(2), len |-> 3]
     ELSE [cp |-> (b - 240) * 262144 + c(1) * 4096 + c(2) * 64 + c(3),
           len |-> 4]

\* The text of bytes[i..]: runs of ASCII as they are, the rest by sequence.
RECURSIVE Utf8Decode(_, _)
Utf8Decode(bytes, i) ==
  IF i > Len(bytes) THEN <<>>
  ELSE IF bytes[i] <= 127
  THEN LET high == {j \in i..Len(bytes) : bytes[j] > 127}
           next == IF high = {} THEN Len(bytes) + 1
                   ELSE CHOOSE j \in high : \A k \in high : j <= k
       IN SubSeq(bytes, i, next - 1) \o Utf8Decode(bytes, next)
  ELSE LET q == Utf8Sequence(bytes, i)
       IN <<q.cp>> \o Utf8Decode(bytes, i + q.len)

\* Buffer.prototype.toString('utf-8'): never throws.
BufferToStringUtf8(bytes) == Utf8Decode(bytes, 1)

\* The UTF-8 bytes of one code point below 65536.
Utf8Bytes(c) ==
  IF c < 128 THEN <<c>>
  ELSE IF c < 2048 THEN <<192 + (c \div 64), 128 + (c % 64)>>
  ELSE <<224 + (c \div 4096), 128 + ((c \div 64) % 64), 128 + (c % 64)>>

RECURSIVE Utf8Encode(_)
Utf8Encode(s) ==
  IF s = <<>> THEN <<>> ELSE Utf8Bytes(Head(s)) \o Utf8Encode(Tail(s))

\* Buffer.from(s): the UTF-8 bytes of a string.
BufferFromString(s) ==
  IF \A i \in 1..Len(s) : s[i] < 128 THEN s ELSE Utf8Encode(s)

\* Buffer.prototype.toString('base64url'): sextet j (from 0) is bits
\* 6j..6j+5 of the bytes, zero bits after the last; no padding.
BufferToBase64Url(b) ==
  [k \in 1..((8 * Len(b) + 5) \div 6) |->
     LET a == (6 * (k - 1)) \div 8
         off == (6 * (k - 1)) % 8
         w == b[a + 1] * 256 + (IF a + 2 <= Len(b) THEN b[a + 2] ELSE 0)
     IN Base64UrlChars[((w \div Pow2(10 - off)) % 64) + 1]]

(***************************************************************************)
(* Numbers. A JavaScript number of the model is an integer, held as its    *)
(* sign and its decimal digits, most significant first, so that a time in  *)
(* milliseconds fits: Num(12) is [neg |-> FALSE, mag |-> <<1, 2>>].        *)
(***************************************************************************)

RECURSIVE NatDigits(_)
NatDigits(n) ==
  IF n < 10 THEN <<n>> ELSE Append(NatDigits(n \div 10), n % 10)

Num(n) ==
  IF n < 0 THEN [neg |-> TRUE, mag |-> NatDigits(0 - n)]
  ELSE [neg |-> FALSE, mag |-> NatDigits(n)]

\* The number a decimal literal of the source denotes.
BigNum(neg, literal) ==
  [neg |-> neg, mag |-> [i \in 1..Len(literal) |-> Ch(SubSeq(literal, i, i)) - 48]]

NumIsZero(a) == a.mag = <<0>>

RECURSIVE DigitsLess(_, _)
DigitsLess(a, b) ==
  /\ a # <<>>
  /\ \/ Head(a) < Head(b)
     \/ Head(a) = Head(b) /\ DigitsLess(Tail(a), Tail(b))

MagLess(a, b) ==
  \/ Len(a) < Len(b)
  \/ Len(a) = Len(b) /\ DigitsLess(a, b)

\* a < b
NumLess(a, b) ==
  IF a.neg /\ ~b.neg THEN TRUE
  ELSE IF ~a.neg /\ b.neg THEN FALSE
  ELSE IF a.neg THEN MagLess(b.mag, a.mag)
  ELSE MagLess(a.mag, b.mag)

\* a * 1000
NumTimes1000(a) ==
  IF NumIsZero(a) THEN a ELSE [neg |-> a.neg, mag |-> a.mag \o <<0, 0, 0>>]

\* The largest time value of a Date, 8.64e15 ms on either side of the epoch.
MaxTimeValue == BigNum(FALSE, "8640000000000000")

\* A Date whose toISOString throws for every time value.
DateIsValidNever(ms) == FALSE

\* new Date(ms) holds a valid time unless |ms| exceeds MaxTimeValue.
DateIsValid(ms) == ~MagLess(MaxTimeValue.mag, ms.mag)

(***************************************************************************)
(* JavaScript values and JSON                                              *)
(***************************************************************************)

Undefined == [t |-> "undefined"]
JNull == [t |-> "null"]
JBool(b) == [t |-> "boolean", v |-> b]
\* n is a number as Num gives it.
JNum(n) == [t |-> "number", v |-> n]
JStr(s) == [t |-> "string", v |-> s]
JArr(elems) == [t |-> "array", v |-> elems]
\* An object is its own properties in insertion order, each [k, v].
JObj(members) == [t |-> "object", v |-> members]

\* The typeof operator.
TypeOf(x) == IF x.t \in {"null", "array"} THEN "object" ELSE x.t

\* ToBoolean: the values !x holds for.
Falsy(x) ==
  \/ x.t \in {"undefined", "null"}
  \/ x.t = "boolean" /\ ~x.v
  \/ x.t = "number" /\ NumIsZero(x.v)
  \/ x.t = "string" /\ x.v = <<>>

\* Array.isArray
IsArray(x) == x.t = "array"

\* x.key for a key that is no array index, 'length' or built-in member.
Get(x, key) ==
  IF x.t = "object" /\ \E i \in 1..Len(x.v) : x.v[i].k = key
  THEN x.v[CHOOSE i \in 1..Len(x.v) : x.v[i].k = key].v
  ELSE Undefined

\* Defining a property while parsing: a repeated key keeps its place and
\* takes the later value.
SetMember(members, key, val) ==
  IF \E i \in 1..Len(members) : members[i].k = key
  THEN [i \in 1..Len(members) |->
          IF members[i].k = key THEN [k |-> key, v |-> val] ELSE members[i]]
  ELSE Append(members, [k |-> key, v |-> val])

JsonWhiteSpace == {9, 10, 13, 32}
Digits == 48..57
HexValue(c) ==
  IF c \in 48..57 THEN c - 48
  ELSE IF c \in 65..70 THEN c - 55
  ELSE IF c \in 97..102 THEN c - 87
  ELSE 16

RECURSIVE SkipWs(_, _)
SkipWs(s, i) ==
  IF i <= Len(s) /\ s[i] \in JsonWhiteSpace THEN SkipWs(s, i + 1) ELSE i

HasAt(s, i, lit) ==
  /\ i + Len(lit) - 1 <= Len(s)
  /\ SubSeq(s, i, i + Len(lit) - 1) = lit

ParseFail == [ok |-> FALSE]
ParseOk(pos, val) == [ok |-> TRUE, pos |-> pos, val |-> val]

\* The characters of a JSON string from i, after its opening quote.
RECURSIVE ParseString(_, _, _)
ParseString(s, i, acc) ==
  IF i > Len(s) \/ s[i] < 32 THEN ParseFail
  ELSE IF s[i] = Ch("\"") THEN ParseOk(i + 1, acc)
  ELSE IF s[i] # Ch("\\") THEN ParseString(s, i + 1, Append(acc, s[i]))
  ELSE IF i + 1 > Len(s) THEN ParseFail
  ELSE LET e == s[i + 1] IN
    IF e \in {Ch("\""), Ch("\\"), Ch("/")}
    THEN ParseString(s, i + 2, Append(acc, e))
    ELSE IF e = Ch("b") THEN ParseString(s, i + 2, Append(acc, 8))
    ELSE IF e = Ch("f") THEN ParseString(s, i + 2, Append(acc, 12))
    ELSE IF e = Ch("n") THEN ParseString(s, i + 2, Append(acc, 10))
    ELSE IF e = Ch("r") THEN ParseString(s, i + 2, Append(acc, 13))
    ELSE IF e = Ch("t") THEN ParseString(s, i + 2, Append(acc, 9))
    ELSE IF /\ e = Ch("u")
            /\ i + 5 <= Len(s)
            /\ \A k \in 2..5 : HexValue(s[i + k]) < 16
    THEN ParseString(s, i + 6,
           Append(acc, HexValue(s[i + 2]) * 4096 + HexValue(s[i + 3]) * 256
                       + HexValue(s[i + 4]) * 16 + HexValue(s[i + 5])))
    ELSE ParseFail

RECURSIVE ParseDigits(_, _, _)
ParseDigits(s, i, mag) ==
  IF i <= Len(s) /\ s[i] \in Digits
  THEN ParseDigits(s, i + 1, Append(mag, s[i] - 48))
  ELSE [pos |-> i, mag |-> mag]

\* A JSON number from i. The model holds integers: a number with a fraction
\* or an exponent is not among the modelled payloads, and is refused. The
\* sign of -0 is dropped.
ParseNumber(s, i) ==
  LET neg == s[i] = Ch("-")
      j == IF neg THEN i + 1 ELSE i
  IN IF j > Len(s) \/ s[j] \notin Digits THEN ParseFail
     ELSE LET d == IF s[j] = 48 THEN [pos |-> j + 1, mag |-> <<0>>]
                   ELSE ParseDigits(s, j, <<>>)
          IN IF d.pos <= Len(s) /\ s[d.pos] \in {Ch("."), Ch("e"), Ch("E")}
             THEN ParseFail
             ELSE ParseOk(d.pos,
                    JNum([neg |-> neg /\ d.mag # <<0>>, mag |-> d.mag]))

RECURSIVE ParseValue(_, _)
RECURSIVE ParseElements(_, _, _)
RECURSIVE ParseMembers(_, _, _)

ParseValue(s, i0) ==
  LET i == SkipWs(s, i0) IN
  IF i > Len(s) THEN ParseFail
  ELSE IF s[i] = Ch("{")
  THEN LET j == SkipWs(s, i + 1) IN
       IF j <= Len(s) /\ s[j] = Ch("}") THEN ParseOk(j + 1, JObj(<<>>))
       ELSE ParseMembers(s, j, <<>>)
  ELSE IF s[i] = Ch("[")
  THEN LET j == SkipWs(s, i + 1) IN
       IF j <= Len(s) /\ s[j] = Ch("]") THEN ParseOk(j + 1, JArr(<<>>))
       ELSE ParseElements(s, j, <<>>)
  ELSE IF s[i] = Ch("\"")
  THEN LET r == ParseString(s, i + 1, <<>>) IN
       IF r.ok THEN ParseOk(r.pos, JStr(r.val)) ELSE ParseFail
  ELSE IF s[i] = Ch("-") \/ s[i] \in Digits THEN ParseNumber(s, i)
  ELSE IF HasAt(s, i, Str("true")) THEN ParseOk(i + 4, JBool(TRUE))
  ELSE IF HasAt(s, i, Str("false")) THEN ParseOk(i + 5, JBool(FALSE))
  ELSE IF HasAt(s, i, Str("null")) THEN ParseOk(i + 4, JNull)
  ELSE ParseFail

\* The elements of an array from i, where an element must start.
ParseElements(s, i, acc) ==
  LET r == ParseValue(s, i) IN
  IF ~r.ok THEN ParseFail
  ELSE LET j == SkipWs(s, r.pos) IN
    IF j > Len(s) THEN ParseFail
    ELSE IF s[j] = Ch(",") THEN ParseElements(s, j + 1, Append(acc, r.val))
    ELSE IF s[j] = Ch("]") THEN ParseOk(j + 1, JArr(Append(acc, r.val)))
    ELSE ParseFail

\* The members of an object from i0, where a member must start.
ParseMembers(s, i0, acc) ==
  LET i == SkipWs(s, i0) IN
  IF i > Len(s) \/ s[i] # Ch("\"") THEN ParseFail
  ELSE LET k == ParseString(s, i + 1, <<>>) IN
    IF ~k.ok THEN ParseFail
    ELSE LET c == SkipWs(s, k.pos) IN
      IF c > Len(s) \/ s[c] # Ch(":") THEN ParseFail
      ELSE LET r == ParseValue(s, c + 1) IN
        IF ~r.ok THEN ParseFail
        ELSE LET j == SkipWs(s, r.pos) IN
          IF j > Len(s) THEN ParseFail
          ELSE IF s[j] = Ch(",")
          THEN ParseMembers(s, j + 1, SetMember(acc, k.val, r.val))
          ELSE IF s[j] = Ch("}")
          THEN ParseOk(j + 1, JObj(SetMember(acc, k.val, r.val)))
          ELSE ParseFail

\* JSON.parse: [ok |-> TRUE, val |-> the value], or [ok |-> FALSE] where it
\* throws a SyntaxError.
JsonParse(text) ==
  LET r == ParseValue(text, 1) IN
  IF r.ok /\ SkipWs(text, r.pos) > Len(text)
  THEN [ok |-> TRUE, val |-> r.val]
  ELSE [ok |-> FALSE]

RECURSIVE QuoteChars(_)
QuoteChars(s) ==
  IF s = <<>> THEN <<>>
  ELSE LET c == Head(s) IN
    (IF c = Ch("\"") \/ c = Ch("\\") THEN <<Ch("\\"), c>>
     ELSE IF c = 8 THEN Str("\\b")
     ELSE IF c = 9 THEN Str("\\t")
     ELSE IF c = 10 THEN Str("\\n")
     ELSE IF c = 12 THEN Str("\\f")
     ELSE IF c = 13 THEN Str("\\r")
     ELSE IF c < 32
     THEN Str("\\u00") \o <<48 + (c \div 16)>>
          \o <<IF c % 16 < 10 THEN 48 + (c % 16) ELSE 87 + (c % 16)>>
     ELSE <<c>>)
    \o QuoteChars(Tail(s))

\* JSON.stringify of a value that JSON.parse can give.
RECURSIVE Stringify(_)
Stringify(x) ==
  IF x.t = "null" THEN Str("null")
  ELSE IF x.t = "boolean" THEN (IF x.v THEN Str("true") ELSE Str("false"))
  ELSE IF x.t = "number"
  THEN (IF x.v.neg THEN Str("-") ELSE <<>>)
       \o [i \in 1..Len(x.v.mag) |-> 48 + x.v.mag[i]]
  ELSE IF x.t = "string" THEN Str("\"") \o QuoteChars(x.v) \o Str("\"")
  ELSE IF x.t = "array"
  THEN Str("[")
       \o Join([i \in 1..Len(x.v) |-> Stringify(x.v[i])], Str(","))
       \o Str("]")
  ELSE Str("{")
       \o Join([i \in 1..Len(x.v) |->
                  Str("\"") \o QuoteChars(x.v[i].k) \o Str("\":")
                  \o Stringify(x.v[i].v)], Str(","))
       \o Str("}")

(***************************************************************************)
(* Exceptions and log events                                               *)
(***************************************************************************)

\* new InvalidTokenException(message): 401 with its response body.
InvalidTokenException(message) ==
  [name |-> "InvalidTokenException",
   status |-> 401,
   response |-> [statusCode |-> 401, error |-> "INVALID_TOKEN",
                 message |-> message]]

\* new InsufficientPermissionsException(message): 403 with its response body.
InsufficientPermissionsException(message) ==
  [name |-> "InsufficientPermissionsException",
   status |-> 403,
   response |-> [statusCode |-> 403, error |-> "INSUFFICIENT_PERMISSIONS",
                 message |-> message]]

\* The RangeError that Date.prototype.toISOString throws on an invalid date.
RangeError == [name |-> "RangeError", message |-> Str("Invalid time value")]

\* Error.prototype.message
MessageOf(error) ==
  IF "response" \in DOMAIN error THEN error.response.message ELSE error.message

\* A logger that writes every event at the level of log.
LogEventAtLogLevel(logger, level, message, context) ==
  [logger |-> logger, level |-> "log", message |-> message, context |-> context]

\* One call of a Logger method: the logger's name, the method (warn, error,
\* log, debug), the message literal, and the context object where one is
\* passed.
LogEvent(logger, level, message, context) ==
  [logger |-> logger, level |-> level, message |-> message, context |-> context]
LogEventNoContext(logger, level, message) ==
  [logger |-> logger, level |-> level, message |-> message]

\* What a call leaves: the events it logged, then the value it returned or
\* the error it threw.
Returned(logs, value) == [threw |-> FALSE, value |-> value, logs |-> logs]
Threw(logs, error) == [threw |-> TRUE, error |-> error, logs |-> logs]

(***************************************************************************)
(* JwtParserService                                                        *)
(***************************************************************************)

\* The base64url decoding inside the try block: the replacements, the
\* padding, Buffer.from and toString. None of them throws.
DecodePayload(payload) ==
  LET base64 == ReplaceAll(ReplaceAll(payload, Ch("-"), Ch("+")), Ch("_"), Ch("/"))
      padded == PadEnd(base64, Len(base64) + ((4 - (Len(base64) % 4)) % 4), Ch("="))
  IN [threw |-> FALSE, value |-> BufferToStringUtf8(BufferFromBase64(padded))]

\* The check without the trim. C2 does not hold of it.
ValidRequiredClaimUntrimmed(x) ==
  ~(Falsy(x) \/ TypeOf(x) # "string")

\* claims.sub and claims.email: truthy, a string, and not blank.
ValidRequiredClaim(x) ==
  ~(Falsy(x) \/ TypeOf(x) # "string" \/ Trim(x.v) = <<>>)

\* The roles in the opposite order. C4 does not hold of it.
RolesOfReversed(claims) ==
  LET r == Get(claims, Str("roles")) IN
  IF /\ r # Undefined
     /\ IsArray(r)
     /\ \A i \in 1..Len(r.v) : TypeOf(r.v[i]) = "string"
  THEN [i \in 1..Len(r.v) |-> r.v[Len(r.v) + 1 - i].v]
  ELSE <<>>

\* The roles that are strings, the others left out.
RolesOfStringsOnly(claims) ==
  LET r == Get(claims, Str("roles")) IN
  IF r # Undefined /\ IsArray(r)
  THEN LET kept == SelectSeq(r.v, LAMBDA x : TypeOf(x) = "string")
       IN [i \in 1..Len(kept) |-> kept[i].v]
  ELSE <<>>

\* The roles of the result.
RolesOf(claims) ==
  LET r == Get(claims, Str("roles")) IN
  IF /\ r # Undefined
     /\ IsArray(r)
     /\ \A i \in 1..Len(r.v) : TypeOf(r.v[i]) = "string"
  THEN [i \in 1..Len(r.v) |-> r.v[i].v]
  ELSE <<>>

\* The warning about a roles claim that is not used.
RolesWarnings(claims) ==
  LET r == Get(claims, Str("roles")) IN
  IF r = Undefined THEN <<>>
  ELSE IF IsArray(r)
  THEN IF \A i \in 1..Len(r.v) : TypeOf(r.v[i]) = "string" THEN <<>>
       ELSE <<LogEvent("JwtParserService", "warn",
                "Token contains invalid roles claim (non-string elements), defaulting to empty array",
                [rolesType |-> TypeOf(r)])>>
  ELSE <<LogEvent("JwtParserService", "warn",
           "Token contains invalid roles claim (not an array), defaulting to empty array",
           [rolesType |-> TypeOf(r)])>>

\* The expiry check: whether the token counts as expired at time t.
IsExpired(claims, t) ==
  LET exp == Get(claims, Str("exp")) IN
  /\ exp # Undefined
  /\ TypeOf(exp) = "number"
  /\ NumLess(exp.v, Num(t))

\* The claim as it is, a number or not.
NumberOrUndefinedAsItIs(x) == x

\* exp and iat of the result: the claim if it is a number, else undefined.
NumberOrUndefined(x) == IF TypeOf(x) = "number" THEN x ELSE Undefined

\* parseToken(token), called when Date.now() is t seconds.
parseToken(token, t) ==
  Let(Split(token, Ch(".")), LAMBDA parts :
  IF Len(parts) # 3
  THEN Threw(<<LogEvent("JwtParserService", "warn",
                 "Token validation failed: invalid format (expected 3 parts)",
                 [partsCount |-> Len(parts)])>>,
             InvalidTokenException(
               Str("JWT token must have exactly 3 parts separated by dots")))
  ELSE
  Let(DecodePayload(parts[2]), LAMBDA decoded :
  IF decoded.threw
  THEN Threw(<<LogEvent("JwtParserService", "warn",
                 "Token validation failed: invalid base64 encoding",
                 [error |-> "error.message"])>>,
             InvalidTokenException(
               Str("JWT payload is not valid base64url encoding")))
  ELSE
  Let(JsonParse(decoded.value), LAMBDA parsed :
  IF ~parsed.ok
  THEN Threw(<<LogEvent("JwtParserService", "warn",
                 "Token validation failed: invalid JSON payload",
                 [error |-> "error.message"])>>,
             InvalidTokenException(Str("JWT payload is not valid JSON")))
  ELSE
  Let(parsed.val, LAMBDA claims :
  IF Falsy(claims) \/ TypeOf(claims) # "object"
  THEN Threw(<<LogEventNoContext("JwtParserService", "warn",
                 "Token validation failed: payload is not an object")>>,
             InvalidTokenException(Str("JWT payload must be an object")))
  ELSE IF ~ValidRequiredClaim(Get(claims, Str("sub")))
  THEN Threw(<<LogEventNoContext("JwtParserService", "warn",
                 "Token validation failed: missing or invalid \"sub\" claim")>>,
             InvalidTokenException(
               Str("JWT token must contain a valid \"sub\" claim")))
  ELSE IF ~ValidRequiredClaim(Get(claims, Str("email")))
  THEN Threw(<<LogEventNoContext("JwtParserService", "warn",
                 "Token validation failed: missing or invalid \"email\" claim")>>,
             InvalidTokenException(
               Str("JWT token must contain a valid \"email\" claim")))
  ELSE
  Let(Get(claims, Str("exp")), LAMBDA exp :
  Let([sub |-> Get(claims, Str("sub")).v,
       email |-> Get(claims, Str("email")).v,
       roles |-> RolesOf(claims),
       exp |-> NumberOrUndefined(exp),
       iat |-> NumberOrUndefined(Get(claims, Str("iat")))],
      LAMBDA userClaims :
  IF IsExpired(claims, t) /\ ~DateIsValid(NumTimes1000(exp.v))
  THEN Threw(RolesWarnings(claims), RangeError)
  ELSE Returned(
         RolesWarnings(claims)
         \o (IF IsExpired(claims, t)
             THEN <<LogEvent("JwtParserService", "warn",
                      "Token is expired but accepted in mock mode",
                      [exp |-> exp.v,
                       expiredDate |-> [isoStringOf |-> NumTimes1000(exp.v)],
                       currentTime |-> t])>>
             ELSE <<>>)
         \o <<LogEvent("JwtParserService", "debug", "Token parsed successfully",
                [sub |-> userClaims.sub,
                 rolesCount |-> Len(userClaims.roles),
                 hasExpiration |-> ~Falsy(userClaims.exp)])>>,
         userClaims)))))))

(***************************************************************************)
(* Requests and routes                                                     *)
(*                                                                         *)
(* A request holds its headers, url and method, the route it is for, and   *)
(* request.user. A route holds the guards of its @UseGuards in order and   *)
(* the metadata its decorators set on the handler and on the class.        *)
(***************************************************************************)

ROLES_KEY == "roles"
ALL_ROLES_KEY == "all_roles"

\* @Roles(...roles) and @RequireAllRoles(...roles): the metadata value is
\* the array of the arguments.
Roles(roles) == [t |-> "array", v |-> roles]
RequireAllRoles(roles) == [t |-> "array", v |-> roles]

NoMetadata == [roles |-> Undefined, all_roles |-> Undefined]

\* reflector.getAllAndOverride(key, [context.getHandler(),
\* context.getClass()]): the handler's metadata if it is set, else the
\* class's.
GetAllAndOverride(route, key) ==
  IF route.handler[key] # Undefined THEN route.handler[key]
  ELSE route.class[key]

\* request.headers?.authorization
AuthorizationOf(request) ==
  IF request.headers = Undefined THEN Undefined
  ELSE request.headers.authorization

\* includes that takes capital letters for small ones. C9 does not hold of
\* it.
IncludesIgnoringCase(array, x) ==
  \E i \in 1..Len(array) :
    /\ Len(array[i]) = Len(x)
    /\ \A k \in 1..Len(x) :
         (IF array[i][k] \in 65..90 THEN array[i][k] + 32 ELSE array[i][k])
           = (IF x[k] \in 65..90 THEN x[k] + 32 ELSE x[k])

\* Array.prototype.includes on an array of strings.
Includes(array, x) == \E i \in 1..Len(array) : array[i] = x

\* !requiredRoles alone. C8 does not hold of it.
NoRolesRequiredUndefinedOnly(requiredRoles) ==
  requiredRoles = Undefined

\* !requiredRoles || requiredRoles.length === 0
NoRolesRequired(requiredRoles) ==
  requiredRoles = Undefined \/ Len(requiredRoles.v) = 0

\* every in the place of some. C6 does not hold of it.
HasRequiredRoleEvery(userRoles, requiredRoles) ==
  \A i \in 1..Len(requiredRoles) : Includes(userRoles, requiredRoles[i])

\* requiredRoles.some((role) => user.roles.includes(role))
HasRequiredRole(userRoles, requiredRoles) ==
  \E i \in 1..Len(requiredRoles) : Includes(userRoles, requiredRoles[i])

\* The whole requirement where a role is missing. C7 does not hold of it.
MissingRolesWhole(userRoles, requiredRoles) ==
  IF \A i \in 1..Len(requiredRoles) : Includes(userRoles, requiredRoles[i])
  THEN <<>>
  ELSE requiredRoles

\* requiredRoles.filter((role) => !user.roles.includes(role))
MissingRoles(userRoles, requiredRoles) ==
  SelectSeq(requiredRoles, LAMBDA role : ~Includes(userRoles, role))

(***************************************************************************)
(* AuthGuard                                                               *)
(***************************************************************************)

\* The prefix without its space. C10 does not hold of it.
bearerPrefixNoSpace == Str("Bearer")

bearerPrefix == Str("Bearer ")

\* AuthGuard.canActivate on a request, when Date.now() is t seconds: what
\* the call leaves, with the value of request.user after it in field user
\* and the calls it made of jwtParser.parseToken, each with its argument
\* and what it left, in field calls.
AuthGuardCanActivate(request, t) ==
  LET authHeader == AuthorizationOf(request)
      Leaves(result) == result @@ [user |-> request.user, calls |-> <<>>]
      Called(token, parsed) == <<[token |-> token, t |-> t, result |-> parsed]>>
  IN
  IF Falsy(authHeader)
  THEN Leaves(Threw(<<LogEvent("AuthGuard", "warn",
                        "Authentication failed: missing Authorization header",
                        [path |-> request.url, method |-> request.method])>>,
                    InvalidTokenException(Str("Missing Authorization header"))))
  ELSE IF ~StartsWith(authHeader.v, bearerPrefix)
  THEN Leaves(Threw(<<LogEvent("AuthGuard", "warn",
                        "Authentication failed: invalid Authorization header format",
                        [path |-> request.url,
                         format |-> SubstringTo(authHeader.v, 20)])>>,
                    InvalidTokenException(
                      Str("Authorization header must use Bearer scheme"))))
  ELSE
  Let(Trim(SubstringFrom(authHeader.v, Len(bearerPrefix))), LAMBDA token :
  IF token = <<>>
  THEN Leaves(Threw(<<LogEvent("AuthGuard", "warn",
                        "Authentication failed: empty token",
                        [path |-> request.url])>>,
                    InvalidTokenException(Str("Bearer token is empty"))))
  ELSE
  Let(parseToken(token, t), LAMBDA parsed :
  IF parsed.threw
  THEN Threw(parsed.logs
             \o <<LogEvent("AuthGuard", "warn",
                    "Authentication failed: token parsing error",
                    [path |-> request.url,
                     error |-> MessageOf(parsed.error)])>>,
             parsed.error)
         @@ [user |-> request.user, calls |-> Called(token, parsed)]
  ELSE
  Let(parsed.value, LAMBDA userClaims :
  Returned(parsed.logs
           \o <<LogEvent("AuthGuard", "log", "Authentication successful",
                  [userId |-> userClaims.sub,
                   email |-> userClaims.email,
                   rolesCount |-> Len(userClaims.roles),
                   path |-> request.url,
                   method |-> request.method])>>,
           TRUE)
    @@ [user |-> userClaims, calls |-> Called(token, parsed)])))

(***************************************************************************)
(* RequireRolesGuard                                                       *)
(***************************************************************************)

\* RequireRolesGuard.canActivate on a request for a route.
RequireRolesGuardCanActivate(request, route) ==
  LET requiredRoles == GetAllAndOverride(route, ROLES_KEY) IN
  IF NoRolesRequired(requiredRoles)
  THEN Returned(
         IF requiredRoles # Undefined /\ Len(requiredRoles.v) = 0
         THEN <<LogEvent("RequireRolesGuard", "warn",
                  "RequireRolesGuard used with empty roles array",
                  [path |-> request.url, method |-> request.method])>>
         ELSE <<>>,
         TRUE)
  ELSE
  LET user == request.user IN
  IF user = Undefined
  THEN Threw(<<LogEvent("RequireRolesGuard", "error",
                 "RequireRolesGuard called without authenticated user",
                 [path |-> request.url, requiredRoles |-> requiredRoles.v])>>,
             InsufficientPermissionsException(
               Str("User must be authenticated to check roles")))
  ELSE
  LET hasRequiredRole == HasRequiredRole(user.roles, requiredRoles.v) IN
  IF ~hasRequiredRole
  THEN Threw(<<LogEvent("RequireRolesGuard", "warn",
                 "Authorization failed: insufficient roles",
                 [userId |-> user.sub,
                  userRoles |-> user.roles,
                  requiredRoles |-> requiredRoles.v,
                  path |-> request.url,
                  method |-> request.method])>>,
             InsufficientPermissionsException(
               Str("User lacks required role. Required one of: [")
               \o Join(requiredRoles.v, Str(", ")) \o Str("]")))
  ELSE Returned(<<LogEvent("RequireRolesGuard", "log",
                    "Authorization successful",
                    [userId |-> user.sub,
                     userRolesCount |-> Len(user.roles),
                     requiredRoles |-> requiredRoles.v,
                     path |-> request.url,
                     method |-> request.method])>>,
                TRUE)

(***************************************************************************)
(* RequireAllRolesGuard                                                    *)
(***************************************************************************)

\* RequireAllRolesGuard.canActivate on a request for a route.
RequireAllRolesGuardCanActivate(request, route) ==
  LET requiredRoles == GetAllAndOverride(route, ALL_ROLES_KEY) IN
  IF NoRolesRequired(requiredRoles)
  THEN Returned(
         IF requiredRoles # Undefined /\ Len(requiredRoles.v) = 0
         THEN <<LogEvent("RequireAllRolesGuard", "warn",
                  "RequireAllRolesGuard used with empty roles array",
                  [path |-> request.url, method |-> request.method])>>
         ELSE <<>>,
         TRUE)
  ELSE
  LET user == request.user IN
  IF user = Undefined
  THEN Threw(<<LogEvent("RequireAllRolesGuard", "error",
                 "RequireAllRolesGuard called without authenticated user",
                 [path |-> request.url, requiredRoles |-> requiredRoles.v])>>,
             InsufficientPermissionsException(
               Str("User must be authenticated to check roles")))
  ELSE
  LET missingRoles == MissingRoles(user.roles, requiredRoles.v) IN
  IF Len(missingRoles) > 0
  THEN Threw(<<LogEvent("RequireAllRolesGuard", "warn",
                 "Authorization failed: missing required roles",
                 [userId |-> user.sub,
                  userRoles |-> user.roles,
                  requiredRoles |-> requiredRoles.v,
                  missingRoles |-> missingRoles,
                  path |-> request.url,
                  method |-> request.method])>>,
             InsufficientPermissionsException(
               Str("User lacks required roles. Missing: [")
               \o Join(missingRoles, Str(", ")) \o Str("]")))
  ELSE Returned(<<LogEvent("RequireAllRolesGuard", "log",
                    "Authorization successful (all-of)",
                    [userId |-> user.sub,
                     userRolesCount |-> Len(user.roles),
                     requiredRoles |-> requiredRoles.v,
                     path |-> request.url,
                     method |-> request.method])>>,
                TRUE)

(***************************************************************************)
(* The requests of the model                                               *)
(***************************************************************************)

\* The latest time the clock of the model reaches, in seconds.
MaxNow == 2

Member(k, v) == [k |-> Str(k), v |-> v]
StrArray(a) == JArr([i \in 1..Len(a) |-> JStr(Str(a[i]))])
SubU1 == Member("sub", JStr(Str("u1")))
EmailAB == Member("email", JStr(Str("a@b")))
WithRoles(r) == JObj(<<SubU1, EmailAB, Member("roles", r)>>)
WithExp(e) == JObj(<<SubU1, EmailAB, Member("exp", e)>>)

\* The payloads the tokens are made of, as the tests make them:
\* JSON.stringify, then base64url.
Payloads ==
  << \* sub and email only, and with other fields
     JObj(<<SubU1, EmailAB>>),
     JObj(<<Member("name", JObj(<<Member("sub", JStr(<<>>))>>)), SubU1,
            Member("aud", JArr(<<JNull, JBool(FALSE)>>)), EmailAB>>),
     JObj(<<Member("sub", JStr(Str(" u1 "))),
            Member("email", JStr(Str("a@b") \o <<9>>))>>),
     JObj(<<Member("sub", JStr(<<233, 8364>>)), EmailAB>>),
     JObj(<<Member("sub", JStr(Str("~?>?"))), EmailAB>>),
     \* roles
     WithRoles(StrArray(<<"admin">>)),
     WithRoles(StrArray(<<"moderator">>)),
     WithRoles(StrArray(<<"user">>)),
     WithRoles(StrArray(<<"Admin">>)),
     WithRoles(StrArray(<<" admin">>)),
     WithRoles(StrArray(<<"admin", "superuser">>)),
     WithRoles(StrArray(<<"superuser", "user", "superuser">>)),
     WithRoles(StrArray(<<>>)),
     WithRoles(JStr(Str("admin"))),
     WithRoles(JNull),
     WithRoles(JArr(<<JStr(Str("admin")), JNum(Num(1))>>)),
     WithRoles(JArr(<<JNull, JStr(Str("admin"))>>)),
     WithRoles(JObj(<<>>)),
     WithRoles(JBool(FALSE)),
     \* exp and iat
     JObj(<<SubU1, EmailAB, Member("roles", StrArray(<<"admin", "user">>)),
            Member("exp", JNum(Num(1))), Member("iat", JNum(Num(0)))>>),
     WithExp(JNum(Num(1))),
     WithExp(JNum(Num(0))),
     WithExp(JStr(Str("1"))),
     WithExp(JNull),
     WithExp(JNum(BigNum(TRUE, "8640000000000"))),
     WithExp(JNum(BigNum(TRUE, "8640000000001"))),
     JObj(<<SubU1, EmailAB, Member("iat", JStr(Str("0")))>>),
     JObj(<<SubU1, EmailAB, Member("exp", JNum(Num(0))),
            Member("iat", JNum(Num(5)))>>),
     \* sub or email missing or not valid
     JObj(<<EmailAB, Member("roles", StrArray(<<"user">>))>>),
     JObj(<<SubU1, Member("roles", StrArray(<<"user">>))>>),
     JObj(<<>>),
     JObj(<<Member("sub", JStr(<<>>)), EmailAB>>),
     JObj(<<Member("sub", JStr(Str("  "))), EmailAB>>),
     JObj(<<Member("sub", JStr(<<160>>)), EmailAB>>),
     JObj(<<Member("sub", JNum(Num(5))), EmailAB>>),
     JObj(<<SubU1, Member("email", JStr(Str(" ")))>>),
     JObj(<<SubU1, Member("email", JNull)>>),
     JObj(<<SubU1, Member("email", StrArray(<<"a@b">>))>>),
     JObj(<<Member("sub", JBool(TRUE)), Member("email", JBool(TRUE)),
            Member("roles", StrArray(<<"admin">>))>>),
     \* not an object
     JArr(<<>>),
     StrArray(<<"sub">>),
     JNum(Num(5)),
     JNum(Num(0)),
     JStr(Str("sub")),
     JBool(TRUE),
     JNull >>

\* Payload texts that JSON.stringify does not give: texts that are JSON,
\* each with the value it denotes, and texts that are not JSON.
PayloadTexts ==
  << [text |-> Str(" { \"sub\" : \"u1\" ,\"email\":\"a@b\", \"roles\" : [ \"admin\" ] } "),
      payload |-> WithRoles(StrArray(<<"admin">>))],
     [text |-> Str("{\"sub\":\"\",\"sub\":\"u2\",\"email\":\"a@b\"}"),
      payload |-> JObj(<<Member("sub", JStr(Str("u2"))), EmailAB>>)],
     [text |-> Str("{\"sub\":\"u\\u0031\",\"email\":\"a\\/b\"}"),
      payload |-> JObj(<<SubU1, Member("email", JStr(Str("a/b")))>>)],
     [text |-> Str("{\"sub\":\"u1\",\"email\":\"a@b\"")],
     [text |-> Str("{sub:\"u1\",email:\"a@b\"}")],
     [text |-> Str("{\"sub\":\"u1\",\"email\":\"a@b\"}x")],
     [text |-> <<>>] >>

\* Buffer.from(text).toString('base64url')
Base64Url(text) == BufferToBase64Url(BufferFromString(text))

\* `${header}.${payload}.${signature}`
MakeToken(header, text, signature) ==
  header \o Str(".") \o Base64Url(text) \o Str(".") \o signature

HeaderSegment == Base64Url(Str("{\"alg\":\"HS256\",\"typ\":\"JWT\"}"))
\* The tokens of the model, each with what it was made of: kind "payload"
\* where the middle segment is the base64 of a JSON text of the value in
\* field payload, "text" where it is the base64 of a text that is not JSON,
\* "bytes" where it is not base64 or not of UTF-8, "segments" where the
\* token has not 3 segments.
TokensOf(payloads, texts, header, first) ==
  [i \in 1..Len(payloads) |->
     [token |-> MakeToken(header, Stringify(payloads[i]), Str("mock-signature")),
      kind |-> "payload", payload |-> payloads[i]]]
  \o
  [i \in 1..Len(texts) |->
     [token |-> MakeToken(header, texts[i].text, Str("mock-signature"))]
     @@ (IF "payload" \in DOMAIN texts[i]
         THEN [kind |-> "payload", payload |-> texts[i].payload]
         ELSE [kind |-> "text"])]
  \o
  << \* other header and signature segments
     [token |-> <<>> \o Str(".") \o first \o Str(".") \o <<>>,
      kind |-> "payload", payload |-> payloads[1]],
     [token |-> Str("!.") \o first \o Str(".{}"),
      kind |-> "payload", payload |-> payloads[1]],
     \* the payload in the standard alphabet, padded, and with characters
     \* that are not of the alphabet
     [token |-> Str("h.") \o first \o Str("=.s"),
      kind |-> "payload", payload |-> payloads[1]],
     [token |-> Str("h.") \o SubSeq(first, 1, 1) \o Str(" ")
                \o SubSeq(first, 2, 5) \o Str("*") \o Drop(first, 5)
                \o Str(".s"),
      kind |-> "payload", payload |-> payloads[1]],
     \* not 3 segments
     [token |-> Str("invalid.token"), kind |-> "segments"],
     [token |-> Str("nodots"), kind |-> "segments"],
     [token |-> Str("a.b.c.d"), kind |-> "segments"],
     [token |-> header \o Str(".") \o first, kind |-> "segments"],
     [token |-> header \o Str(".") \o first \o Str(".s."), kind |-> "segments"],
     \* 3 segments, the payload not base64 of JSON
     [token |-> Str(".."), kind |-> "text"],
     [token |-> Str("a.!!!.c"), kind |-> "bytes"],
     [token |-> Str("a.")
                \o BufferToBase64Url(<<195, 169, 255, 226, 130, 172, 240, 159>>)
                \o Str(".c"),
      kind |-> "bytes"] >>

Tokens ==
  Let(Payloads, LAMBDA payloads :
    TokensOf(payloads, PayloadTexts, HeaderSegment,
             Base64Url(Stringify(payloads[1]))))

Bearer(token) == [authorization |-> JStr(Str("Bearer ") \o token)]

\* The headers of the requests of the model: each token as a Bearer
\* token, and the other shapes of the Authorization header.
HeaderInputsOf(tokens) ==
  [i \in 1..Len(tokens) |->
     [headers |-> Bearer(tokens[i].token), sent |-> tokens[i]]]
  \o
  << [headers |-> Undefined],
     [headers |-> [authorization |-> Undefined]],
     [headers |-> [authorization |-> JStr(<<>>)]],
     [headers |-> [authorization |-> JStr(Str("Bearer"))]],
     [headers |-> [authorization |-> JStr(Str("Bearer "))]],
     [headers |-> [authorization |-> JStr(Str("Bearer  ") \o <<9, 32>>)]],
     [headers |-> [authorization |-> JStr(Str("Basic dXNlcjpwYXNzd29yZDEyMzQ1Ng=="))]],
     [headers |-> [authorization |-> JStr(Str("bearer ") \o tokens[1].token)]],
     [headers |-> [authorization |-> JStr(Str("BEARER ") \o tokens[1].token)]],
     [headers |-> [authorization |-> JStr(Str(" Bearer ") \o tokens[1].token)]],
     [headers |-> [authorization |-> JStr(Str("Bearer") \o <<9>> \o tokens[1].token)]],
     [headers |-> [authorization |->
                     JStr(Str("Bearer   ") \o tokens[5].token \o Str("  "))],
      sent |-> tokens[5]],
     [headers |-> [authorization |-> JStr(Str("Bearer invalid.token "))],
      sent |-> [token |-> Str("invalid.token"), kind |-> "segments"]] >>

HeaderInputs == HeaderInputsOf(Tokens)

Route(path, method, guards, handler, class) ==
  [path |-> Str(path), method |-> Str(method), guards |-> guards,
   handler |-> handler, class |-> class]

RolesMeta(roles) ==
  [roles |-> Roles([i \in 1..Len(roles) |-> Str(roles[i])]),
   all_roles |-> Undefined]
AllRolesMeta(roles) ==
  [roles |-> Undefined,
   all_roles |-> RequireAllRoles([i \in 1..Len(roles) |-> Str(roles[i])])]

\* The routes of the model: those of the example controller, and others
\* that combine the guards and the decorators in the ways an application
\* can.
Routes ==
  << Route("/api/public", "GET", <<>>, NoMetadata, NoMetadata),
     Route("/api/protected", "GET", <<"AuthGuard">>, NoMetadata, NoMetadata),
     Route("/api/admin/dashboard", "GET", <<"AuthGuard", "RequireRolesGuard">>,
           RolesMeta(<<"admin", "moderator">>), NoMetadata),
     Route("/api/admin/critical", "DELETE",
           <<"AuthGuard", "RequireAllRolesGuard">>,
           AllRolesMeta(<<"admin", "superuser">>), NoMetadata),
     \* a decorator with no arguments, and no decorator
     Route("/any/none", "GET", <<"AuthGuard", "RequireRolesGuard">>,
           RolesMeta(<<>>), NoMetadata),
     Route("/all/none", "GET", <<"AuthGuard", "RequireAllRolesGuard">>,
           AllRolesMeta(<<>>), NoMetadata),
     Route("/any/undecorated", "GET", <<"AuthGuard", "RequireRolesGuard">>,
           NoMetadata, NoMetadata),
     Route("/all/undecorated", "GET", <<"AuthGuard", "RequireAllRolesGuard">>,
           RolesMeta(<<"admin">>), NoMetadata),
     \* the decorator on the class, alone and overridden on the handler
     Route("/any/class", "GET", <<"AuthGuard", "RequireRolesGuard">>,
           NoMetadata, RolesMeta(<<"user">>)),
     Route("/any/override", "GET", <<"AuthGuard", "RequireRolesGuard">>,
           RolesMeta(<<"admin">>), RolesMeta(<<"user">>)),
     Route("/all/class", "GET", <<"AuthGuard", "RequireAllRolesGuard">>,
           AllRolesMeta(<<>>), AllRolesMeta(<<"user">>)),
     \* longer requirements
     Route("/all/three", "GET", <<"AuthGuard", "RequireAllRolesGuard">>,
           AllRolesMeta(<<"superuser", "admin", "user">>), NoMetadata),
     Route("/all/twice", "GET", <<"AuthGuard", "RequireAllRolesGuard">>,
           AllRolesMeta(<<"user", "admin", "user">>), NoMetadata),
     Route("/any/three", "GET", <<"AuthGuard", "RequireRolesGuard">>,
           RolesMeta(<<"user", "Admin", "admin ">>), NoMetadata),
     \* both role guards
     Route("/both", "GET",
           <<"AuthGuard", "RequireRolesGuard", "RequireAllRolesGuard">>,
           [roles |-> Roles(<<Str("admin"), Str("moderator")>>),
            all_roles |-> RequireAllRoles(<<Str("admin"), Str("superuser")>>)],
           NoMetadata),
     Route("/both/none", "GET",
           <<"AuthGuard", "RequireRolesGuard", "RequireAllRolesGuard">>,
           [roles |-> Roles(<<>>), all_roles |-> RequireAllRoles(<<>>)],
           NoMetadata),
     \* a role guard with no AuthGuard before it
     Route("/unwired/any", "GET", <<"RequireRolesGuard">>,
           RolesMeta(<<"admin">>), NoMetadata),
     Route("/unwired/all", "GET", <<"RequireAllRolesGuard">>,
           AllRolesMeta(<<"admin">>), NoMetadata),
     Route("/unwired/none", "GET", <<"RequireRolesGuard", "AuthGuard">>,
           RolesMeta(<<>>), NoMetadata),
     Route("/unwired/order", "GET", <<"RequireAllRolesGuard", "AuthGuard">>,
           AllRolesMeta(<<"admin">>), NoMetadata) >>

(***************************************************************************)
(* The state: the requests being served, the log, and the clock            *)
(***************************************************************************)

VARIABLES
  req,  \* the requests: each its request object, its route, and how far
        \* the framework has taken it through the route's guards
  log,  \* the events the loggers have written, oldest first, each with
        \* the request that was being served
  now   \* Math.floor(Date.now() / 1000)

vars == <<req, log, now>>

NoError == [name |-> "none"]
NoToken == [token |-> <<>>, kind |-> "none"]

\* A request as it arrives: request.user is not set, no guard has run.
\* sent is the token the client put in the header, where it put one.
NewRequest(input, route) ==
  [headers |-> input.headers,
   url |-> route.path,
   method |-> route.method,
   user |-> Undefined,
   calls |-> <<>>,             \* the calls of parseToken made for it
   route |-> route,
   sent |-> IF "sent" \in DOMAIN input THEN input.sent ELSE NoToken,
   next |-> 1,                 \* the place of the next guard to run
   status |-> "guards",        \* guards, handler, handled or rejected
   thrown |-> NoError,         \* the error that rejected it
   ran |-> <<>>]               \* the guards that have run, in order

Init ==
  /\ \E h \in 1..Len(HeaderInputs), p \in 1..Len(Routes) :
       req = [r \in {"r1"} |-> NewRequest(HeaderInputs[h], Routes[p])]
  /\ log = <<>>
  /\ now = 0

\* A framework that goes on to the next guard after a guard has thrown.
AfterGuardContinues(request, guard, result) ==
  IF result.threw
  THEN [request EXCEPT !.next = @ + 1,
                       !.thrown = result.error,
                       !.ran = Append(@, guard)]
  ELSE [request EXCEPT !.next = @ + 1,
                       !.ran = Append(@, guard)]

\* What the framework does with the outcome of a guard: an error rejects
\* the request, and on true the next guard, or the handler, is next.
AfterGuard(request, guard, result) ==
  IF result.threw
  THEN [request EXCEPT !.status = "rejected",
                       !.thrown = result.error,
                       !.ran = Append(@, guard)]
  ELSE [request EXCEPT !.next = @ + 1,
                       !.ran = Append(@, guard)]

Tagged(r, logs) == [i \in 1..Len(logs) |-> [req |-> r, event |-> logs[i]]]

GuardIsNext(r, guard) ==
  /\ req[r].status = "guards"
  /\ req[r].next <= Len(req[r].route.guards)
  /\ req[r].route.guards[req[r].next] = guard

\* An AuthGuard that keeps the identity in a field of the guard, which all
\* the requests share: what it stores for one request, every request has.
RunAuthGuardSharedSlot(r) ==
  /\ GuardIsNext(r, "AuthGuard")
  /\ LET result == AuthGuardCanActivate(req[r], now) IN
       /\ req' = [q \in DOMAIN req |->
                    IF q = r
                    THEN AfterGuard([req[r] EXCEPT !.user = result.user,
                                                   !.calls = @ \o result.calls],
                                    "AuthGuard", result)
                    ELSE [req[q] EXCEPT !.user = result.user]]
       /\ log' = log \o Tagged(r, result.logs)
  /\ UNCHANGED now

\* An AuthGuard that clears request.user when it fails.
RunAuthGuardClearsOnFailure(r) ==
  /\ GuardIsNext(r, "AuthGuard")
  /\ LET result == AuthGuardCanActivate(req[r], now) IN
       /\ req' = [req EXCEPT ![r] =
                    AfterGuard([req[r] EXCEPT !.user = IF result.threw
                                                       THEN Undefined
                                                       ELSE result.user,
                                              !.calls = @ \o result.calls],
                               "AuthGuard", result)]
       /\ log' = log \o Tagged(r, result.logs)
  /\ UNCHANGED now

\* The framework calls AuthGuard.canActivate.
RunAuthGuard(r) ==
  /\ GuardIsNext(r, "AuthGuard")
  /\ LET result == AuthGuardCanActivate(req[r], now) IN
       /\ req' = [req EXCEPT ![r] =
                    AfterGuard([req[r] EXCEPT !.user = result.user,
                                              !.calls = @ \o result.calls],
                               "AuthGuard", result)]
       /\ log' = log \o Tagged(r, result.logs)
  /\ UNCHANGED now

\* A RequireRolesGuard whose logger writes nothing.
RunRequireRolesGuardSilent(r) ==
  /\ GuardIsNext(r, "RequireRolesGuard")
  /\ LET result == RequireRolesGuardCanActivate(req[r], req[r].route) IN
       req' = [req EXCEPT ![r] = AfterGuard(req[r], "RequireRolesGuard", result)]
  /\ UNCHANGED <<log, now>>

\* The framework calls RequireRolesGuard.canActivate.
RunRequireRolesGuard(r) ==
  /\ GuardIsNext(r, "RequireRolesGuard")
  /\ LET result == RequireRolesGuardCanActivate(req[r], req[r].route) IN
       /\ req' = [req EXCEPT ![r] = AfterGuard(req[r], "RequireRolesGuard", result)]
       /\ log' = log \o Tagged(r, result.logs)
  /\ UNCHANGED now

\* The framework calls RequireAllRolesGuard.canActivate.
RunRequireAllRolesGuard(r) ==
  /\ GuardIsNext(r, "RequireAllRolesGuard")
  /\ LET result == RequireAllRolesGuardCanActivate(req[r], req[r].route) IN
       /\ req' = [req EXCEPT ![r] =
                    AfterGuard(req[r], "RequireAllRolesGuard", result)]
       /\ log' = log \o Tagged(r, result.logs)
  /\ UNCHANGED now

\* Every guard of the route returned true: the framework calls the handler.
RunHandler(r) ==
  /\ req[r].status = "guards"
  /\ req[r].next > Len(req[r].route.guards)
  /\ req' = [req EXCEPT ![r].status = "handled"]
  /\ UNCHANGED <<log, now>>

\* A second passes.
Tick ==
  /\ now < MaxNow
  /\ now' = now + 1
  /\ UNCHANGED <<req, log>>

Next ==
  \/ \E r \in DOMAIN req : RunAuthGuard(r)
  \/ \E r \in DOMAIN req : RunRequireRolesGuard(r)
  \/ \E r \in DOMAIN req : RunRequireAllRolesGuard(r)
  \/ \E r \in DOMAIN req : RunHandler(r)
  \/ Tick

Spec == Init /\ [][Next]_vars

\* Several requests in flight at once, each with its own request object,
\* through the same guards: the framework runs the guards of each in the
\* order of its route, and the steps of different requests in any order.
ConcurrentHeaders ==
  << HeaderInputs[6], HeaderInputs[8],
     HeaderInputs[Len(Tokens) + 1], HeaderInputs[Len(HeaderInputs)] >>

ConcurrentRoutes == << Routes[3], Routes[4], Routes[5] >>

InitConcurrent ==
  /\ \E h1, h2 \in 1..Len(ConcurrentHeaders), p1, p2 \in 1..Len(ConcurrentRoutes) :
       req = [r \in {"r1", "r2"} |->
                IF r = "r1"
                THEN NewRequest(ConcurrentHeaders[h1], ConcurrentRoutes[p1])
                ELSE NewRequest(ConcurrentHeaders[h2], ConcurrentRoutes[p2])]
  /\ log = <<>>
  /\ now = 0

SpecConcurrent == InitConcurrent /\ [][Next]_vars

\* A request that reaches the guards with request.user already set, by a
\* middleware that ran before them, or with none.
EarlierUser(role) ==
  [sub |-> Str("u0"), email |-> Str("x@y"), roles |-> <<Str(role)>>,
   exp |-> Undefined, iat |-> Undefined]

InitWithUser ==
  /\ \E h \in 1..Len(ConcurrentHeaders), p \in 1..Len(Routes),
        user \in {Undefined, EarlierUser("admin"), EarlierUser("user")} :
       req = [r \in {"r1"} |->
                [NewRequest(ConcurrentHeaders[h], Routes[p]) EXCEPT !.user = user]]
  /\ log = <<>>
  /\ now = 0

SpecWithUser == InitWithUser /\ [][Next]_vars

(***************************************************************************)
(* Properties                                                              *)
(*                                                                         *)
(* The properties speak of the calls of parseToken the requests record,    *)
(* of what the token of each call was made of, and of what the guards that *)
(* have run on a request have left.                                        *)
(***************************************************************************)

\* The calls of parseToken, each with the request it was made for and the
\* token record the client sent.
ParseCalls ==
  UNION {{[r |-> r, call |-> req[r].calls[i], sent |-> req[r].sent] :
            i \in 1..Len(req[r].calls)} : r \in DOMAIN req}

\* The calls whose token was made of a JSON value.
PayloadCalls ==
  {c \in ParseCalls : c.sent.kind = "payload" /\ c.call.token = c.sent.token}

\* A string that is not empty after trimming.
NonBlankString(x) ==
  /\ x.t = "string"
  /\ \E i \in 1..Len(x.v) : x.v[i] \notin JsWhiteSpace

\* The member of a payload under a key; undefined where there is none.
Claim(payload, key) ==
  IF payload.t = "object" /\ \E i \in 1..Len(payload.v) : payload.v[i].k = Str(key)
  THEN payload.v[CHOOSE i \in 1..Len(payload.v) : payload.v[i].k = Str(key)].v
  ELSE Undefined

\* A payload that is an object with a valid sub and a valid email.
HasSubAndEmail(payload) ==
  /\ payload.t = "object"
  /\ NonBlankString(Claim(payload, "sub"))
  /\ NonBlankString(Claim(payload, "email"))

\* The call failed with InvalidTokenException and this message.
FailedWith(call, message) ==
  /\ call.result.threw
  /\ call.result.error = InvalidTokenException(Str(message))

\* The number of dots of a token.
Dots(token) == Cardinality({i \in 1..Len(token) : token[i] = 46})

IsSequence(x) == DOMAIN x = 1..Cardinality(DOMAIN x)

\* C1: for every token of 3 segments whose middle segment decodes to a JSON
\* object with a string sub and a string email, both not empty after
\* trimming, parseToken succeeds, and the sub and the email of the record it
\* returns are those of the payload, unaltered, whatever the other fields
\* of the payload are.
C1_ValidTokenParses ==
  \A c \in PayloadCalls :
    HasSubAndEmail(c.sent.payload) =>
      /\ ~c.call.result.threw
      /\ c.call.result.value.sub = Claim(c.sent.payload, "sub").v
      /\ c.call.result.value.email = Claim(c.sent.payload, "email").v

\* C1, where it fails: a payload with a valid sub and a valid email, and
\* parseToken has thrown.
C1_ValidTokenRejected ==
  \E c \in PayloadCalls :
    /\ HasSubAndEmail(c.sent.payload)
    /\ c.call.result.threw
    /\ c.call.result.error = RangeError

C4_RolesIsASequence ==
  \A c \in ParseCalls :
    ~c.call.result.threw =>
      /\ "roles" \in DOMAIN c.call.result.value
      /\ IsSequence(c.call.result.value.roles)
      /\ (c.sent.kind = "payload" /\ c.call.token = c.sent.token) =>
           LET claimed == Claim(c.sent.payload, "roles") IN
           /\ claimed = Undefined => c.call.result.value.roles = <<>>
           /\ (claimed.t = "array"
                 /\ \A i \in 1..Len(claimed.v) : claimed.v[i].t = "string") =>
                c.call.result.value.roles =
                  [i \in 1..Len(claimed.v) |-> claimed.v[i].v]

\* C4, reached: a payload whose roles hold one role twice, parsed.
C4_RepeatedRoleKept ==
  \E c \in PayloadCalls :
    /\ ~c.call.result.threw
    /\ Len(c.call.result.value.roles) = 3
    /\ c.call.result.value.roles[1] = c.call.result.value.roles[3]
    /\ c.call.result.value.roles[1] # c.call.result.value.roles[2]

\* The warning of an expired token is among the events of a call.
ExpiryWarned(call) ==
  \E i \in 1..Len(call.result.logs) :
    /\ call.result.logs[i].level = "warn"
    /\ call.result.logs[i].message = "Token is expired but accepted in mock mode"

\* C5: expiry never rejects. For every token that is valid otherwise,
\* parseToken succeeds whether exp is before, at or after the current time,
\* the record it returns has the same fields with the values of the payload
\* in the three cases, and the warning is logged exactly when exp is a
\* number less than the current time.
C5_ExpiryNeverRejects ==
  \A c \in PayloadCalls :
    HasSubAndEmail(c.sent.payload) =>
      LET exp == Claim(c.sent.payload, "exp") IN
      /\ ~c.call.result.threw
      /\ DOMAIN c.call.result.value = {"sub", "email", "roles", "exp", "iat"}
      /\ c.call.result.value.sub = Claim(c.sent.payload, "sub").v
      /\ c.call.result.value.email = Claim(c.sent.payload, "email").v
      /\ c.call.result.value.exp = (IF exp.t = "number" THEN exp ELSE Undefined)
      /\ ExpiryWarned(c.call) <=> (exp.t = "number" /\ NumLess(exp.v, Num(c.call.t)))

\* C5, where it fails: a token whose exp is a number before the current
\* time, and parseToken has thrown instead of logging the warning.
C5_ExpiredTokenRejected ==
  \E c \in PayloadCalls :
    /\ HasSubAndEmail(c.sent.payload)
    /\ Claim(c.sent.payload, "exp").t = "number"
    /\ NumLess(Claim(c.sent.payload, "exp").v, Num(c.call.t))
    /\ c.call.result.threw
    /\ ~ExpiryWarned(c.call)

RoleGuards == {"RequireRolesGuard", "RequireAllRolesGuard"}

\* The key under which the decorator of a role guard sets its requirement.
KeyOf(guard) == IF guard = "RequireRolesGuard" THEN ROLES_KEY ELSE ALL_ROLES_KEY

\* The guard has run on the request; it has thrown; it has returned true.
Ran(r, guard) == \E i \in 1..Len(req[r].ran) : req[r].ran[i] = guard
Denied(r, guard) ==
  /\ req[r].status = "rejected"
  /\ req[r].ran # <<>>
  /\ req[r].ran[Len(req[r].ran)] = guard
Allowed(r, guard) == Ran(r, guard) /\ ~Denied(r, guard)

\* The guard has decided on an identity and a requirement of one role or
\* more.
Decided(r, guard) ==
  /\ Ran(r, guard)
  /\ req[r].user # Undefined
  /\ GetAllAndOverride(req[r].route, KeyOf(guard)) # Undefined
  /\ GetAllAndOverride(req[r].route, KeyOf(guard)).v # <<>>

\* The log holds an event of the guard for the request with this message
\* and this value of a field of its context.
Logged(r, guard, message, field, value) ==
  \E i \in 1..Len(log) :
    /\ log[i].req = r
    /\ log[i].event.logger = guard
    /\ log[i].event.message = message
    /\ log[i].event.context[field] = value

\* C6: any-of. For every identity and every requirement of one role or
\* more, RequireRolesGuard allows exactly when some required role is one of
\* the roles of the identity, and when it denies, the failure and the event
\* of the denial carry the whole requirement in its order.
C6_AnyOf ==
  \A r \in DOMAIN req :
    Decided(r, "RequireRolesGuard") =>
      LET required == GetAllAndOverride(req[r].route, ROLES_KEY).v
          roles == req[r].user.roles
      IN
      /\ Allowed(r, "RequireRolesGuard") <=>
           \E i \in 1..Len(required), j \in 1..Len(roles) : required[i] = roles[j]
      /\ Denied(r, "RequireRolesGuard") =>
           /\ req[r].thrown =
                InsufficientPermissionsException(
                  Str("User lacks required role. Required one of: [")
                  \o Join(required, Str(", ")) \o Str("]"))
           /\ Logged(r, "RequireRolesGuard",
                     "Authorization failed: insufficient roles",
                     "requiredRoles", required)

\* C6, reached: an identity with the role user alone, denied on a
\* requirement of two roles.
C6_UserDenied ==
  \E r \in DOMAIN req :
    /\ Decided(r, "RequireRolesGuard")
    /\ Denied(r, "RequireRolesGuard")
    /\ req[r].user.roles = <<Str("user")>>
    /\ Len(GetAllAndOverride(req[r].route, ROLES_KEY).v) = 2

\* C7: all-of. For every identity and every requirement of one role or
\* more, RequireAllRolesGuard allows exactly when every required role is one
\* of the roles of the identity, and when it denies, the failure and the
\* event of the denial carry the required roles the identity has not, in
\* the order of the requirement.
C7_AllOf ==
  \A r \in DOMAIN req :
    Decided(r, "RequireAllRolesGuard") =>
      LET required == GetAllAndOverride(req[r].route, ALL_ROLES_KEY).v
          roles == req[r].user.roles
          missing == SelectSeq(required,
                       LAMBDA role : \A j \in 1..Len(roles) : roles[j] # role)
      IN
      /\ Allowed(r, "RequireAllRolesGuard") <=>
           \A i \in 1..Len(required) : \E j \in 1..Len(roles) : required[i] = roles[j]
      /\ Denied(r, "RequireAllRolesGuard") =>
           /\ req[r].thrown =
                InsufficientPermissionsException(
                  Str("User lacks required roles. Missing: [")
                  \o Join(missing, Str(", ")) \o Str("]"))
           /\ Logged(r, "RequireAllRolesGuard",
                     "Authorization failed: missing required roles",
                     "missingRoles", missing)

\* C7, reached: an identity with one of three required roles, the second,
\* denied.
C7_TwoOfThreeMissing ==
  \E r \in DOMAIN req :
    /\ Decided(r, "RequireAllRolesGuard")
    /\ Denied(r, "RequireAllRolesGuard")
    /\ Len(GetAllAndOverride(req[r].route, ALL_ROLES_KEY).v) = 3
    /\ req[r].user.roles =
         <<GetAllAndOverride(req[r].route, ALL_ROLES_KEY).v[2]>>

\* C8: a requirement of no roles always allows, in both guards, whatever
\* the identity is.
C8_NoRolesRequiredAllows ==
  \A r \in DOMAIN req : \A guard \in RoleGuards :
    (/\ Ran(r, guard)
     /\ GetAllAndOverride(req[r].route, KeyOf(guard)) # Undefined
     /\ GetAllAndOverride(req[r].route, KeyOf(guard)).v = <<>>)
    => Allowed(r, guard)

\* C8, reached: an identity with no roles, allowed by both guards on a
\* route whose two requirements are empty.
C8_BothAllowed ==
  \E r \in DOMAIN req :
    /\ req[r].user # Undefined
    /\ req[r].user.roles = <<>>
    /\ \A guard \in RoleGuards :
         /\ Allowed(r, guard)
         /\ GetAllAndOverride(req[r].route, KeyOf(guard)) # Undefined
         /\ GetAllAndOverride(req[r].route, KeyOf(guard)).v = <<>>

\* Two strings that are equal once the white space around them is dropped
\* and their capital letters are made small.
Alike(a, b) ==
  LET kept(s) == {i \in 1..Len(s) : s[i] \notin JsWhiteSpace}
      first(s) == CHOOSE i \in kept(s) : \A k \in kept(s) : i <= k
      last(s) == CHOOSE i \in kept(s) : \A k \in kept(s) : k <= i
      stripped(s) == IF kept(s) = {} THEN <<>> ELSE SubSeq(s, first(s), last(s))
      small(c) == IF c \in 65..90 THEN c + 32 ELSE c
  IN /\ Len(stripped(a)) = Len(stripped(b))
     /\ \A i \in 1..Len(stripped(a)) :
          small(stripped(a)[i]) = small(stripped(b)[i])

\* A required role that a role of the identity is alike and that no role of
\* the identity equals.
NearMiss(required, roles) ==
  \E i \in 1..Len(required) :
    /\ \E j \in 1..Len(roles) : Alike(required[i], roles[j])
    /\ \A j \in 1..Len(roles) : required[i] # roles[j]

\* C9: the guards compare roles as they are written: a role of the identity
\* that differs from a required role in the case of its letters or in white
\* space around it does not satisfy it. The any-of guard denies where the
\* identity has such roles and no role equal to a required one; the all-of
\* guard denies wherever a required role is met by such a role only.
C9_ExactComparison ==
  \A r \in DOMAIN req : \A guard \in RoleGuards :
    (/\ Decided(r, guard)
     /\ NearMiss(GetAllAndOverride(req[r].route, KeyOf(guard)).v, req[r].user.roles))
    => \/ Denied(r, guard)
       \/ /\ guard = "RequireRolesGuard"
          /\ \E i \in 1..Len(GetAllAndOverride(req[r].route, ROLES_KEY).v) :
               \E j \in 1..Len(req[r].user.roles) :
                 GetAllAndOverride(req[r].route, ROLES_KEY).v[i] = req[r].user.roles[j]

\* C9, reached: the roles ["Admin"] against the requirement ["admin"],
\* denied by the any-of guard.
C9_AdminCapitalDenied ==
  \E r \in DOMAIN req :
    /\ Decided(r, "RequireRolesGuard")
    /\ Denied(r, "RequireRolesGuard")
    /\ req[r].user.roles = <<Str("Admin")>>
    /\ GetAllAndOverride(req[r].route, ROLES_KEY).v = <<Str("admin")>>

\* AuthGuard has failed on the request with this message.
AuthFailed(r, message) ==
  /\ Denied(r, "AuthGuard")
  /\ req[r].thrown = InvalidTokenException(Str(message))
  /\ req[r].calls = <<>>

\* C10: AuthGuard classifies the Authorization header before it decodes
\* anything. A header that is absent or empty fails as missing; else one
\* that does not begin with "Bearer " fails for its scheme; else one whose
\* text after the prefix is white space only fails as an empty token;
\* parseToken is called in none of the three cases, and is called in every
\* other.
C10_HeaderClassified ==
  \A r \in DOMAIN req :
    Ran(r, "AuthGuard") =>
      LET header == IF req[r].headers = Undefined THEN Undefined
                    ELSE req[r].headers.authorization
      IN
      IF header = Undefined \/ header.v = <<>>
      THEN AuthFailed(r, "Missing Authorization header")
      ELSE IF ~(Len(header.v) >= 7 /\ SubSeq(header.v, 1, 7) = Str("Bearer "))
      THEN AuthFailed(r, "Authorization header must use Bearer scheme")
      ELSE IF \A i \in 8..Len(header.v) : header.v[i] \in JsWhiteSpace
      THEN AuthFailed(r, "Bearer token is empty")
      ELSE Len(req[r].calls) = 1

\* C10, reached: a header of "Bearer " and white space, failed as an empty
\* token.
C10_BlankTokenFailed ==
  \E r \in DOMAIN req :
    /\ req[r].headers # Undefined
    /\ req[r].headers.authorization # Undefined
    /\ Len(req[r].headers.authorization.v) > 7
    /\ AuthFailed(r, "Bearer token is empty")

\* The text of the Authorization header after "Bearer ", without the white
\* space around it.
BearerRemainder(r) ==
  LET rest == SubSeq(req[r].headers.authorization.v, 8,
                     Len(req[r].headers.authorization.v))
      kept == {i \in 1..Len(rest) : rest[i] \notin JsWhiteSpace}
  IN IF kept = {} THEN <<>>
     ELSE SubSeq(rest, CHOOSE i \in kept : \A k \in kept : i <= k,
                       CHOOSE i \in kept : \A k \in kept : k <= i)

\* AuthGuard has run on a header of "Bearer " and a remainder that is not
\* blank.
BearerTokenSent(r) ==
  /\ Ran(r, "AuthGuard")
  /\ req[r].headers # Undefined
  /\ req[r].headers.authorization # Undefined
  /\ Len(req[r].headers.authorization.v) >= 7
  /\ SubSeq(req[r].headers.authorization.v, 1, 7) = Str("Bearer ")
  /\ BearerRemainder(r) # <<>>

\* C11: for every header of "Bearer " and a remainder that is not blank,
\* what AuthGuard leaves is what parseToken leaves on the trimmed remainder:
\* where parseToken returns, request.user is the record it returned and the
\* guard returns true; where it throws, the guard throws the same error,
\* unchanged.
C11_GuardOutcomeIsParseOutcome ==
  \A r \in DOMAIN req :
    BearerTokenSent(r) =>
      /\ Len(req[r].calls) = 1
      /\ req[r].calls[1].token = BearerRemainder(r)
      /\ IF req[r].calls[1].result.threw
         THEN /\ Denied(r, "AuthGuard")
              /\ req[r].thrown = req[r].calls[1].result.error
         ELSE /\ Allowed(r, "AuthGuard")
              /\ req[r].user = req[r].calls[1].result.value

\* C11, reached: a token sent with white space before and after it,
\* parsed, and its record stored.
C11_PaddedTokenStored ==
  \E r \in DOMAIN req :
    /\ BearerTokenSent(r)
    /\ Len(req[r].headers.authorization.v) > 7 + Len(BearerRemainder(r))
    /\ Allowed(r, "AuthGuard")
    /\ req[r].user # Undefined
    /\ req[r].user = req[r].calls[1].result.value

\* The guard has run on the request while request.user was absent: no
\* AuthGuard had run before it.
RanWithoutIdentity(r, guard) ==
  \E i \in 1..Len(req[r].ran) :
    /\ req[r].ran[i] = guard
    /\ \A j \in 1..(i - 1) : req[r].ran[j] # "AuthGuard"

\* C12: whenever a role guard runs on a request whose request.user is
\* absent, it fails as not authenticated and does not allow, for every
\* declared requirement in both guards, one of no roles included.
C12_AbsentIdentityNeverAllowed ==
  \A r \in DOMAIN req : \A guard \in RoleGuards :
    (/\ RanWithoutIdentity(r, guard)
     /\ GetAllAndOverride(req[r].route, KeyOf(guard)) # Undefined)
    => /\ Denied(r, guard)
       /\ req[r].thrown =
            InsufficientPermissionsException(
              Str("User must be authenticated to check roles"))

\* C12, where it fails: a role guard has run with request.user absent on a
\* requirement of no roles, and has allowed.
C12_AllowedWithoutIdentity ==
  \E r \in DOMAIN req : \E guard \in RoleGuards :
    /\ RanWithoutIdentity(r, guard)
    /\ GetAllAndOverride(req[r].route, KeyOf(guard)) # Undefined
    /\ GetAllAndOverride(req[r].route, KeyOf(guard)).v = <<>>
    /\ Allowed(r, guard)

\* An error whose response body has the three fields statusCode, error and
\* message, with this status and this code.
SurfacesAs(error, statusCode, code) ==
  /\ "response" \in DOMAIN error
  /\ DOMAIN error.response = {"statusCode", "error", "message"}
  /\ error.response.statusCode = statusCode
  /\ error.response.error = code
  /\ error.status = statusCode

\* C13: every failure is an error object of exactly the three fields
\* statusCode, error and message. Every failure of AuthGuard or parseToken
\* has status 401 and code INVALID_TOKEN, every failure of a role guard has
\* status 403 and code INSUFFICIENT_PERMISSIONS, and neither has the status
\* of the other.
C13_FailuresMappedByKind ==
  /\ \A c \in ParseCalls :
       c.call.result.threw => SurfacesAs(c.call.result.error, 401, "INVALID_TOKEN")
  /\ \A r \in DOMAIN req :
       /\ Denied(r, "AuthGuard") => SurfacesAs(req[r].thrown, 401, "INVALID_TOKEN")
       /\ \A guard \in RoleGuards :
            Denied(r, guard) =>
              SurfacesAs(req[r].thrown, 403, "INSUFFICIENT_PERMISSIONS")

\* C13, where it fails: AuthGuard has failed with an error of parseToken
\* that has no response body of status 401.
C13_FailureWithoutResponse ==
  \E r \in DOMAIN req :
    /\ Denied(r, "AuthGuard")
    /\ Len(req[r].calls) = 1
    /\ req[r].calls[1].result.threw
    /\ req[r].thrown = req[r].calls[1].result.error
    /\ "response" \notin DOMAIN req[r].thrown

\* The route runs AuthGuard and then role guards before the handler.
Pipeline(route) ==
  /\ Len(route.guards) >= 2
  /\ route.guards[1] = "AuthGuard"
  /\ \A i \in 2..Len(route.guards) : route.guards[i] \in RoleGuards

\* The identity satisfies what the route declares for the guard: nothing
\* declared or no roles, or one of the roles for RequireRolesGuard, or all
\* of them for RequireAllRolesGuard.
Satisfies(user, route, guard) ==
  LET declared == GetAllAndOverride(route, KeyOf(guard))
      has(role) == \E j \in 1..Len(user.roles) : user.roles[j] = role
  IN \/ declared = Undefined
     \/ declared.v = <<>>
     \/ /\ guard = "RequireRolesGuard"
        /\ \E i \in 1..Len(declared.v) : has(declared.v[i])
     \/ /\ guard = "RequireAllRolesGuard"
        /\ \A i \in 1..Len(declared.v) : has(declared.v[i])

\* C14: on a route that runs AuthGuard and then a role guard, the guards
\* run in the order of the route, each once, and each after the guards
\* before it returned true. A guard that throws is the last thing that runs
\* for the request: no later guard runs, the handler does not, and
\* parseToken is called once at most. The handler runs only after every
\* guard returned true, and then the request holds the identity parseToken
\* returned, which satisfies what the route declares.
C14_HandlerOnlyAfterGuardsAllow ==
  \A r \in DOMAIN req :
    Pipeline(req[r].route) =>
      LET guards == req[r].route.guards IN
      /\ Len(req[r].ran) <= Len(guards)
      /\ req[r].ran = SubSeq(guards, 1, Len(req[r].ran))
      /\ Len(req[r].calls) <= 1
      /\ req[r].status = "rejected" =>
           /\ req[r].thrown # NoError
           /\ req[r].next = Len(req[r].ran)
           /\ req[r].next = 1 => req[r].user = Undefined
      /\ req[r].status # "rejected" =>
           /\ req[r].thrown = NoError
           /\ req[r].next = Len(req[r].ran) + 1
      /\ req[r].status = "handled" =>
           /\ req[r].ran = guards
           /\ Len(req[r].calls) = 1
           /\ ~req[r].calls[1].result.threw
           /\ req[r].user = req[r].calls[1].result.value
           /\ \A i \in 2..Len(guards) : Satisfies(req[r].user, req[r].route, guards[i])

\* C14, reached: the handler has run on a route of AuthGuard and
\* RequireAllRolesGuard that requires two roles or more.
C14_HandledAfterBothAllowed ==
  \E r \in DOMAIN req :
    /\ Pipeline(req[r].route)
    /\ req[r].status = "handled"
    /\ req[r].ran = <<"AuthGuard", "RequireAllRolesGuard">>
    /\ Len(GetAllAndOverride(req[r].route, ALL_ROLES_KEY).v) >= 2

\* The least length of a piece of the header that counts as a part of it
\* in a logged value; a header shorter than this counts as a whole.
LeakLen == 8

\* The texts an event holds in its context: the values that are strings,
\* and the members of the values that are lists of strings.
TextsOf(event) ==
  IF "context" \notin DOMAIN event THEN {}
  ELSE LET context == event.context
           strings == {"path", "method", "format", "userId", "email", "sub"}
                        \cup (IF event.logger = "JwtParserService"
                              THEN {} ELSE {"error"})
           lists == {"userRoles", "requiredRoles", "missingRoles"}
       IN {context[f] : f \in strings \cap DOMAIN context}
          \cup UNION {{context[f][i] : i \in 1..Len(context[f])} :
                        f \in lists \cap DOMAIN context}

\* The text holds a part of the header: a piece of it of LeakLen characters,
\* or all of a shorter header.
HoldsPartOf(text, header) ==
  LET n == IF Len(header) < LeakLen THEN Len(header) ELSE LeakLen IN
  /\ n > 0
  /\ \E j \in 1..(Len(text) - n + 1) : \E i \in 1..(Len(header) - n + 1) :
       \A k \in 0..(n - 1) : text[j + k] = header[i + k]

\* The value of the Authorization header of a request; empty where there
\* is none.
HeaderValueOf(r) ==
  IF req[r].headers = Undefined THEN <<>>
  ELSE IF req[r].headers.authorization = Undefined THEN <<>>
  ELSE req[r].headers.authorization.v

\* C15: no event logged by AuthGuard, JwtParserService or a role guard, on
\* any path, holds the Authorization header of the request, the token in
\* it, or a part of either.
C15_NoHeaderInLogs ==
  \A i \in 1..Len(log) :
    \A text \in TextsOf(log[i].event) :
      ~HoldsPartOf(text, HeaderValueOf(log[i].req))

\* C15, where it fails: AuthGuard has logged the first characters of a
\* header that is not of the Bearer scheme, the token in it among them.
C15_HeaderStartLogged ==
  \E i \in 1..Len(log) :
    LET header == HeaderValueOf(log[i].req) IN
    /\ log[i].event.logger = "AuthGuard"
    /\ log[i].event.message =
         "Authentication failed: invalid Authorization header format"
    /\ Len(header) > 20
    /\ SubSeq(header, 1, 7) = Str("bearer ")
    /\ log[i].event.context.format = SubSeq(header, 1, 20)

\* What a call of parseToken gives its caller: the record it returned or
\* the error it threw, without the events it logged.
OutcomeOf(result) ==
  IF result.threw
  THEN [threw |-> TRUE, error |-> result.error]
  ELSE [threw |-> FALSE, value |-> result.value]

\* C16: what parseToken gives is a function of the token alone. For every
\* call made, parseToken on the same token at every other current time
\* returns an equal record, or throws the same error.
C16_SameTokenSameOutcome ==
  \A c \in ParseCalls : \A t \in 0..MaxNow :
    OutcomeOf(parseToken(c.call.token, t)) = OutcomeOf(c.call.result)

\* C16, reached: a token parsed after its exp, with the warning of expiry,
\* that parses without the warning at time 0.
C16_ParsedBeforeAndAfterExpiry ==
  \E c \in ParseCalls :
    /\ ~c.call.result.threw
    /\ c.call.t > 0
    /\ ExpiryWarned(c.call)
    /\ ~ExpiryWarned([result |-> parseToken(c.call.token, 0)])

\* C17: whenever the payload segment decodes to JSON that is not an object
\* (an array, a number, a string, a boolean or null), parseToken fails
\* with the reason of the shape of the payload, not with that of sub.
C17_NonObjectPayloadFailsAsShape ==
  \A c \in PayloadCalls :
    c.sent.payload.t # "object" =>
      FailedWith(c.call, "JWT payload must be an object")

\* C17, where it fails: a payload that is an array, failed with the reason
\* of sub.
C17_ArrayFailsAsMissingSub ==
  \E c \in PayloadCalls :
    /\ c.sent.payload.t = "array"
    /\ FailedWith(c.call, "JWT token must contain a valid \"sub\" claim")

\* The text between the two dots of a token of 3 segments.
MiddleSegment(token) ==
  LET dots == {i \in 1..Len(token) : token[i] = 46}
      d1 == CHOOSE i \in dots : \A k \in dots : i <= k
      d2 == CHOOSE i \in dots : \A k \in dots : k <= i
  IN SubSeq(token, d1 + 1, d2 - 1)

\* The segment with '-' as '+' and '_' as '/', then '=' to a multiple of 4
\* characters.
MappedAndPadded(segment) ==
  LET mapped == [i \in 1..Len(segment) |->
                   IF segment[i] = 45 THEN 43
                   ELSE IF segment[i] = 95 THEN 47 ELSE segment[i]]
  IN mapped \o [i \in 1..((4 - (Len(segment) % 4)) % 4) |-> 61]

\* Text that is certainly not base64: it has a character that is neither of
\* the alphabet A-Z a-z 0-9 + / nor '='.
NotBase64(s) ==
  \E i \in 1..Len(s) :
    ~(s[i] \in 65..90 \/ s[i] \in 97..122 \/ s[i] \in 48..57
        \/ s[i] \in {43, 47, 61})

\* Bytes that are certainly not UTF-8: one of them is a byte no UTF-8 text
\* has.
NotUtf8(bytes) ==
  \E i \in 1..Len(bytes) : bytes[i] \in {192, 193} \cup 245..255

\* C18: whenever the payload segment, with '-' as '+' and '_' as '/' and
\* padded with '=' to a multiple of 4 characters, is not base64, or its
\* bytes are not UTF-8 text, parseToken fails with the reason of the
\* encoding, not with one of JSON or of the shape of the payload.
C18_UndecodablePayloadFailsAsEncoding ==
  \A c \in ParseCalls :
    Dots(c.call.token) = 2 =>
      LET padded == MappedAndPadded(MiddleSegment(c.call.token)) IN
      (NotBase64(padded) \/ NotUtf8(BufferFromBase64(padded))) =>
        FailedWith(c.call, "JWT payload is not valid base64url encoding")

\* C18, where it fails: a payload segment of characters that are not of
\* the alphabet, failed with the reason of JSON.
C18_NotBase64FailsAsJson ==
  \E c \in ParseCalls :
    /\ c.call.token = Str("a.!!!.c")
    /\ NotBase64(MappedAndPadded(MiddleSegment(c.call.token)))
    /\ FailedWith(c.call, "JWT payload is not valid JSON")

\* The payload has a roles claim that is not an array, null included, or
\* an array with an element that is not a string.
MalformedRoles(payload) ==
  LET claimed == Claim(payload, "roles") IN
  /\ payload.t = "object"
  /\ claimed # Undefined
  /\ \/ claimed.t # "array"
     \/ \E i \in 1..Len(claimed.v) : claimed.v[i].t # "string"

\* C19: a malformed roles claim does not make parseToken fail and gives no
\* partial list. For every payload with a valid sub and a valid email whose
\* roles are not an array, or are an array with an element that is not a
\* string, parseToken succeeds and the roles of the result are the empty
\* sequence, whatever strings the array holds.
C19_MalformedRolesGiveNoRoles ==
  \A c \in PayloadCalls :
    (HasSubAndEmail(c.sent.payload) /\ MalformedRoles(c.sent.payload)) =>
      /\ ~c.call.result.threw
      /\ c.call.result.value.roles = <<>>
      /\ c.call.result.value.sub = Claim(c.sent.payload, "sub").v

\* C19, reached: roles that are an array of a string and of something
\* else, parsed to no roles.
C19_MixedArrayGivesNoRoles ==
  \E c \in PayloadCalls :
    LET claimed == Claim(c.sent.payload, "roles") IN
    /\ MalformedRoles(c.sent.payload)
    /\ claimed.t = "array"
    /\ \E i \in 1..Len(claimed.v) : claimed.v[i].t = "string"
    /\ ~c.call.result.threw
    /\ c.call.result.value.roles = <<>>

\* The token of the same middle segment with an empty header and an empty
\* signature.
MiddleAlone(token) == <<46>> \o MiddleSegment(token) \o <<46>>

\* C20: the header and the signature do not influence what parseToken
\* gives. Every token of exactly 3 segments gives what the token of its
\* middle segment alone gives, with the first and the third segment empty:
\* an equal record or the same error. Two tokens of 3 segments that share
\* the middle segment so give the same.
C20_HeaderAndSignatureIgnored ==
  \A c \in ParseCalls :
    Dots(c.call.token) = 2 =>
      OutcomeOf(c.call.result)
        = OutcomeOf(parseToken(MiddleAlone(c.call.token), c.call.t))

\* C20, reached: a token with a header and a signature, parsed, as the
\* token of its middle segment alone is.
C20_ParsedWithAndWithoutHeader ==
  \E c \in ParseCalls :
    /\ Dots(c.call.token) = 2
    /\ Len(c.call.token) > Len(MiddleAlone(c.call.token)) + 1
    /\ ~c.call.result.threw
    /\ ~parseToken(MiddleAlone(c.call.token), c.call.t).threw

\* The log holds an event of the guard for the request whose context has
\* these fields with these values.
LoggedWith(r, guard, fields) ==
  \E i \in 1..Len(log) :
    /\ log[i].req = r
    /\ log[i].event.logger = guard
    /\ "context" \in DOMAIN log[i].event
    /\ \A f \in DOMAIN fields :
         /\ f \in DOMAIN log[i].event.context
         /\ log[i].event.context[f] = fields[f]

\* What the route declares for the guard, as the event of the guard
\* carries it: the roles, or nothing where nothing is declared.
DeclaredFor(r, guard) ==
  IF GetAllAndOverride(req[r].route, KeyOf(guard)) = Undefined
  THEN <<>>
  ELSE GetAllAndOverride(req[r].route, KeyOf(guard)).v

\* C21: every run of a role guard on a request with an identity logs its
\* outcome. Where it allows, an event of the guard carries the subject, the
\* number of roles of the identity and the requirement; where it denies,
\* an event of the guard carries the subject, the roles of the identity
\* and the required roles.
C21_RoleGuardLogsItsOutcome ==
  \A r \in DOMAIN req : \A guard \in RoleGuards :
    (Ran(r, guard) /\ req[r].user # Undefined) =>
      /\ Allowed(r, guard) =>
           LoggedWith(r, guard,
                      [userId |-> req[r].user.sub,
                       userRolesCount |-> Len(req[r].user.roles),
                       requiredRoles |-> DeclaredFor(r, guard)])
      /\ Denied(r, guard) =>
           LoggedWith(r, guard,
                      [userId |-> req[r].user.sub,
                       userRoles |-> req[r].user.roles,
                       requiredRoles |-> DeclaredFor(r, guard)])

\* C21, where it fails: RequireRolesGuard has allowed an identity on a
\* requirement of no roles, and no event of the guard carries the subject.
C21_AllowedWithoutOutcomeEvent ==
  \E r \in DOMAIN req :
    /\ Allowed(r, "RequireRolesGuard")
    /\ req[r].user # Undefined
    /\ GetAllAndOverride(req[r].route, ROLES_KEY) # Undefined
    /\ GetAllAndOverride(req[r].route, ROLES_KEY).v = <<>>
    /\ ~ \E i \in 1..Len(log) :
           /\ log[i].req = r
           /\ log[i].event.logger = "RequireRolesGuard"
           /\ "userId" \in DOMAIN log[i].event.context

\* The events at the level of log that AuthGuard and JwtParserService have
\* written for the request.
AuthenticationLogEvents(r) ==
  {i \in 1..Len(log) :
     /\ log[i].req = r
     /\ log[i].event.logger \in {"AuthGuard", "JwtParserService"}
     /\ log[i].event.level = "log"}

\* C22: every successful authentication writes exactly one event at the
\* level of log, and of the identity that event carries the subject, the
\* email and the number of roles only: its context has no other field than
\* these and the path and the method of the request, so it holds neither
\* the roles nor exp nor iat.
C22_OneEventOfSubjectEmailAndCount ==
  \A r \in DOMAIN req :
    Allowed(r, "AuthGuard") =>
      /\ Cardinality(AuthenticationLogEvents(r)) = 1
      /\ \A i \in AuthenticationLogEvents(r) :
           /\ log[i].event.logger = "AuthGuard"
           /\ log[i].event.message = "Authentication successful"
           /\ DOMAIN log[i].event.context
                = {"userId", "email", "rolesCount", "path", "method"}
           /\ log[i].event.context.userId = req[r].user.sub
           /\ log[i].event.context.email = req[r].user.email
           /\ log[i].event.context.rolesCount = Len(req[r].user.roles)
           /\ log[i].event.context.path = req[r].url
           /\ log[i].event.context.method = req[r].method

\* C22, reached: an identity of two roles, with exp and iat, after its exp,
\* authenticated.
C22_AuthenticatedWithRolesExpAndIat ==
  \E r \in DOMAIN req :
    /\ Allowed(r, "AuthGuard")
    /\ Len(req[r].user.roles) = 2
    /\ req[r].user.exp # Undefined
    /\ req[r].user.iat # Undefined
    /\ ExpiryWarned(req[r].calls[1])
    /\ AuthenticationLogEvents(r) # {}

\* C23: on every success of parseToken, exp of the result is exp of the
\* payload where that is a number and is absent where it is not, a numeric
\* string included, and so is iat. iat is checked against nothing: a
\* payload with a valid sub and email whose exp is not a number parses
\* whatever its iat and whatever the current time.
C23_ExpAndIatCarriedIfNumbers ==
  \A c \in PayloadCalls :
    LET exp == Claim(c.sent.payload, "exp")
        iat == Claim(c.sent.payload, "iat")
    IN
    /\ ~c.call.result.threw =>
         /\ c.call.result.value.exp = (IF exp.t = "number" THEN exp ELSE Undefined)
         /\ c.call.result.value.iat = (IF iat.t = "number" THEN iat ELSE Undefined)
    /\ (HasSubAndEmail(c.sent.payload) /\ exp.t # "number") =>
         ~c.call.result.threw

\* C23, reached: a token whose iat is after its exp, parsed after its exp
\* and before its iat, both carried.
C23_ParsedAfterExpBeforeIat ==
  \E c \in PayloadCalls :
    /\ ~c.call.result.threw
    /\ Claim(c.sent.payload, "exp").t = "number"
    /\ Claim(c.sent.payload, "iat").t = "number"
    /\ NumLess(Claim(c.sent.payload, "exp").v, Num(c.call.t))
    /\ NumLess(Num(c.call.t), Claim(c.sent.payload, "iat").v)
    /\ c.call.result.value.iat = Claim(c.sent.payload, "iat")

\* One step of the framework on a request that is alone: its next guard,
\* or the handler after the last guard, at time t.
StepAlone(request, t) ==
  IF request.status # "guards" THEN request
  ELSE IF request.next > Len(request.route.guards)
  THEN [request EXCEPT !.status = "handled"]
  ELSE IF request.route.guards[request.next] = "AuthGuard"
  THEN LET result == AuthGuardCanActivate(request, t) IN
       AfterGuard([request EXCEPT !.user = result.user,
                                  !.calls = @ \o result.calls],
                  "AuthGuard", result)
  ELSE IF request.route.guards[request.next] = "RequireRolesGuard"
  THEN AfterGuard(request, "RequireRolesGuard",
                  RequireRolesGuardCanActivate(request, request.route))
  ELSE AfterGuard(request, "RequireAllRolesGuard",
                  RequireAllRolesGuardCanActivate(request, request.route))

RECURSIVE AloneAfter(_, _)
AloneAfter(request, steps) ==
  IF steps = 0 THEN request
  ELSE StepAlone(AloneAfter(request, steps - 1), 0)

\* The request as it arrived.
Arrived(request) ==
  [request EXCEPT !.user = Undefined, !.calls = <<>>, !.next = 1,
                  !.status = "guards", !.thrown = NoError, !.ran = <<>>]

\* The steps the framework has taken on the request.
StepsOf(request) ==
  Len(request.ran) + (IF request.status = "handled" THEN 1 ELSE 0)

\* What the guards have made of a request: how far it is, its outcome and
\* the identity stored on it.
OutcomeOfRequest(request) ==
  [status |-> request.status, thrown |-> request.thrown, user |-> request.user,
   ran |-> request.ran, next |-> request.next]

\* C24: when several requests run their guards in any interleaving, each
\* request is at every moment what it would be had it taken the same
\* number of steps alone: the same guards have run, with the same outcome
\* and the same identity stored. What the guards did for another request
\* has no part in it.
C24_EachRequestAsIfAlone ==
  \A r \in DOMAIN req :
    OutcomeOfRequest(req[r])
      = OutcomeOfRequest(AloneAfter(Arrived(req[r]), StepsOf(req[r])))

\* C24, reached: two requests in flight at once, one handled with the
\* identity of its token, the other rejected by AuthGuard after it, with
\* no identity.
C24_OneHandledOneRejected ==
  /\ Cardinality(DOMAIN req) = 2
  /\ \E r, q \in DOMAIN req :
       /\ r # q
       /\ req[r].status = "handled"
       /\ req[r].user # Undefined
       /\ Len(req[r].ran) = 2
       /\ Denied(q, "AuthGuard")
       /\ req[q].user = Undefined
       /\ \E i, j \in 1..Len(log) :
            /\ i < j
            /\ log[i].req = r /\ log[i].event.logger = "AuthGuard"
            /\ log[j].req = q /\ log[j].event.logger = "AuthGuard"

\* C25: request.user is written by a successful run of AuthGuard only. A
\* run of AuthGuard that fails, for a missing header, a wrong scheme, an
\* empty token or a failure of parseToken, leaves request.user as it was,
\* and a run of a role guard, whether it allows or denies, leaves
\* request.user with its roles, and the route with what it declares, as
\* they were. Where request.user changes, AuthGuard has just returned true
\* and the new value is the record parseToken returned.
C25_OnlyAuthGuardSuccessWritesUser ==
  [][\A r \in DOMAIN req :
       /\ req'[r].route = req[r].route
       /\ (\E guard \in RoleGuards : req'[r].ran = Append(req[r].ran, guard)) =>
            req'[r].user = req[r].user
       /\ (req'[r].ran = Append(req[r].ran, "AuthGuard")
             /\ req'[r].status = "rejected") =>
            req'[r].user = req[r].user
       /\ req'[r].user # req[r].user =>
            /\ req'[r].ran = Append(req[r].ran, "AuthGuard")
            /\ req'[r].status = "guards"
            /\ req'[r].calls # <<>>
            /\ ~req'[r].calls[Len(req'[r].calls)].result.threw
            /\ req'[r].user = req'[r].calls[Len(req'[r].calls)].result.value
    ]_vars

\* C25, reached: AuthGuard has failed on a request that had request.user
\* set before, and request.user is still what it was.
C25_FailedAuthGuardKeptUser ==
  \E r \in DOMAIN req :
    /\ Denied(r, "AuthGuard")
    /\ req[r].user = EarlierUser("admin")

\* The route declares for the guard a requirement of no roles.
DeclaresNoRoles(r, guard) ==
  /\ GetAllAndOverride(req[r].route, KeyOf(guard)) # Undefined
  /\ GetAllAndOverride(req[r].route, KeyOf(guard)).v = <<>>

\* C26: whenever a role guard runs on a route that declares for it a
\* requirement of no roles, it allows, and it has written a warning of
\* that: an event of the guard at the level of warn, with the path and the
\* method of the request.
C26_EmptyRequirementAllowsWithWarning ==
  \A r \in DOMAIN req : \A guard \in RoleGuards :
    (Ran(r, guard) /\ DeclaresNoRoles(r, guard)) =>
      /\ Allowed(r, guard)
      /\ \E i \in 1..Len(log) :
           /\ log[i].req = r
           /\ log[i].event.logger = guard
           /\ log[i].event.level = "warn"
           /\ log[i].event.message
                = (IF guard = "RequireRolesGuard"
                   THEN "RequireRolesGuard used with empty roles array"
                   ELSE "RequireAllRolesGuard used with empty roles array")
           /\ log[i].event.context
                = [path |-> req[r].url, method |-> req[r].method]

\* C26, reached: both role guards have allowed an identity on requirements
\* of no roles, and the handler has run.
C26_BothAllowedOnNoRoles ==
  \E r \in DOMAIN req :
    /\ req[r].status = "handled"
    /\ req[r].user # Undefined
    /\ \A guard \in RoleGuards : Ran(r, guard) /\ DeclaresNoRoles(r, guard)

=============================================================================
